---- MODULE Spec2Model ----
(***************************************************************************)
(* Model of the Make.com MCP server: the API client (MakeClient, its       *)
(* generic request operation and per-entity methods) and the three tool    *)
(* dispatchers (the standalone stdio server of src/index.ts, the hosted    *)
(* request handler of api/mcp.ts and the hosted createMcpHandler module of *)
(* api/mcp.ts with its server.tool callbacks).  JavaScript values are      *)
(* tagged records, strings are TLA+ strings built by the same              *)
(* concatenations the code performs.                                       *)
(***************************************************************************)
EXTENDS Integers, Sequences, FiniteSets, TLC

VARIABLES env, runtime, proc, client, pc, call, sent, resp, bodyRead, settled,
          result, listing

vars ==
  <<env, runtime, proc, client, pc, call, sent, resp, bodyRead, settled, result,
    listing>>

(***************************************************************************)
(* Bounds.                                                                 *)
(***************************************************************************)
\* number of invocations that may be in flight together
NumInv == 2

Inv == 1..NumInv

(***************************************************************************)
(* JavaScript / JSON values.                                               *)
(***************************************************************************)
Undefined == [t |-> "undefined"]
JNull == [t |-> "null"]
Num(n) == [t |-> "num", n |-> n]
Str(s) == [t |-> "str", s |-> s]
Bool(b) == [t |-> "bool", b |-> b]
\* an object is the sequence of its <<key, value>> properties, in insertion order
Obj(kv) == [t |-> "obj", kv |-> kv]
Arr(items) == [t |-> "arr", items |-> items]

\* JavaScript ToBoolean
Truthy(v) ==
  CASE v.t = "undefined" -> FALSE
    [] v.t = "null" -> FALSE
    [] v.t = "num" -> v.n # 0
    [] v.t = "str" -> v.s # ""
    [] v.t = "bool" -> v.b
    [] OTHER -> TRUE

\* a || b
OrElse(a, b) == IF Truthy(a) THEN a ELSE b

\* o.k and o?.k for a value that is not null: the property, or undefined
Get(o, k) ==
  IF o.t = "obj" /\ \E j \in 1..Len(o.kv) : o.kv[j][1] = k
  THEN LET j == CHOOSE j \in 1..Len(o.kv) :
                  /\ o.kv[j][1] = k
                  /\ \A m \in (j+1)..Len(o.kv) : o.kv[m][1] # k
       IN  o.kv[j][2]
  ELSE Undefined

Has(o, k) == o.t = "obj" /\ \E j \in 1..Len(o.kv) : o.kv[j][1] = k

RECURSIVE JoinWith(_, _)
JoinWith(parts, sep) ==
  IF Len(parts) = 0 THEN ""
  ELSE IF Len(parts) = 1 THEN parts[1]
  ELSE parts[1] \o sep \o JoinWith(Tail(parts), sep)

\* whether JavaScript ToString of v throws: an object holding a property of its
\* own named toString came from JSON, so the property is not callable, and the
\* inherited valueOf returns the object itself; an array joins its elements
RECURSIVE ToStringThrows(_)
ToStringThrows(v) ==
  CASE v.t = "obj" -> \E j \in 1..Len(v.kv) : v.kv[j][1] = "toString"
    [] v.t = "arr" ->
         \E j \in 1..Len(v.items) : ToStringThrows(v.items[j])
    [] OTHER -> FALSE

\* an object that came from JSON with a property named toString
Unconvertible == Obj(<< <<"toString", JNull>> >>)

\* JavaScript ToString, as used by String(v) and by template literals, of a
\* value whose conversion completes (it has no result where ToStringThrows)
RECURSIVE JSString(_)
JSString(v) ==
  CASE v.t = "undefined" -> "undefined"
    [] v.t = "null" -> "null"
    [] v.t = "num" -> ToString(v.n)
    [] v.t = "str" -> v.s
    [] v.t = "bool" -> (IF v.b THEN "true" ELSE "false")
    [] v.t = "obj" /\ ~ToStringThrows(v) -> "[object Object]"
    [] v.t = "arr" /\ ~ToStringThrows(v) ->
         JoinWith([j \in 1..Len(v.items) |->
                     IF v.items[j].t \in {"undefined", "null"} THEN ""
                     ELSE JSString(v.items[j])], ",")

\* the substring test s.includes(sub)
Contains(s, sub) ==
  \E j \in 1..(Len(s) - Len(sub) + 1) : SubSeq(s, j, j + Len(sub) - 1) = sub

(***************************************************************************)
(* JSON.stringify(value, null, gap).                                       *)
(***************************************************************************)
\* the escape of one character: the quote, the backslash and the control
\* characters a string of this model can hold
QuoteChar(c) ==
  CASE c = "\"" -> "\\\""
    [] c = "\\" -> "\\\\"
    [] c = "\n" -> "\\n"
    [] c = "\t" -> "\\t"
    [] c = "\r" -> "\\r"
    [] c = "\f" -> "\\f"
    [] OTHER -> c

RECURSIVE QuoteBody(_)
QuoteBody(s) ==
  IF Len(s) = 0 THEN ""
  ELSE QuoteChar(SubSeq(s, 1, 1)) \o QuoteBody(SubSeq(s, 2, Len(s)))

QuoteJSONString(s) == "\"" \o QuoteBody(s) \o "\""

RECURSIVE Serialize(_, _, _)
RECURSIVE SerializeProps(_, _, _)
RECURSIVE SerializeItems(_, _, _)

\* the serialized properties of an object: one with an undefined value is left out
SerializeProps(kv, gap, indent) ==
  IF Len(kv) = 0 THEN <<>>
  ELSE LET rest == SerializeProps(Tail(kv), gap, indent)
       IN  IF kv[1][2].t = "undefined" THEN rest
           ELSE <<QuoteJSONString(kv[1][1]) \o ":"
                    \o (IF gap = "" THEN "" ELSE " ")
                    \o Serialize(kv[1][2], gap, indent)>> \o rest

\* the serialized elements of an array: an undefined element is null
SerializeItems(items, gap, indent) ==
  IF Len(items) = 0 THEN <<>>
  ELSE <<IF items[1].t = "undefined" THEN "null"
         ELSE Serialize(items[1], gap, indent)>>
       \o SerializeItems(Tail(items), gap, indent)

Serialize(v, gap, indent) ==
  CASE v.t = "null" -> "null"
    [] v.t = "num" -> ToString(v.n)
    [] v.t = "str" -> QuoteJSONString(v.s)
    [] v.t = "bool" -> (IF v.b THEN "true" ELSE "false")
    [] v.t = "obj" ->
         LET parts == SerializeProps(v.kv, gap, indent \o gap)
         IN  IF Len(parts) = 0 THEN "{}"
             ELSE IF gap = "" THEN "{" \o JoinWith(parts, ",") \o "}"
             ELSE "{\n" \o indent \o gap
                    \o JoinWith(parts, ",\n" \o indent \o gap)
                    \o "\n" \o indent \o "}"
    [] v.t = "arr" ->
         LET parts == SerializeItems(v.items, gap, indent \o gap)
         IN  IF Len(parts) = 0 THEN "[]"
             ELSE IF gap = "" THEN "[" \o JoinWith(parts, ",") \o "]"
             ELSE "[\n" \o indent \o gap
                    \o JoinWith(parts, ",\n" \o indent \o gap)
                    \o "\n" \o indent \o "]"

\* JSON.stringify(v)
JSONStringify(v) == Serialize(v, "", "")

\* JSON.stringify(v, null, 2)
JSONStringifyPretty(v) == Serialize(v, "  ", "")

(***************************************************************************)
(* URLSearchParams: the application/x-www-form-urlencoded serializer.      *)
(***************************************************************************)
\* the characters the serializer leaves as they are
FormSafe ==
  {"a","b","c","d","e","f","g","h","i","j","k","l","m","n","o","p","q","r","s",
   "t","u","v","w","x","y","z","A","B","C","D","E","F","G","H","I","J","K","L",
   "M","N","O","P","Q","R","S","T","U","V","W","X","Y","Z","0","1","2","3","4",
   "5","6","7","8","9","*","-",".","_"}

FormEncodeChar(c) ==
  CASE c \in FormSafe -> c
    [] c = " " -> "+"
    [] c = "[" -> "%5B"
    [] c = "]" -> "%5D"
    [] c = "{" -> "%7B"
    [] c = "}" -> "%7D"
    [] c = "\"" -> "%22"
    [] c = ":" -> "%3A"
    [] c = "," -> "%2C"
    [] c = "/" -> "%2F"
    [] c = "=" -> "%3D"
    [] c = "&" -> "%26"
    [] c = "?" -> "%3F"
    [] c = "%" -> "%25"
    [] c = "+" -> "%2B"

RECURSIVE FormEncode(_)
FormEncode(s) ==
  IF Len(s) = 0 THEN ""
  ELSE FormEncodeChar(SubSeq(s, 1, 1)) \o FormEncode(SubSeq(s, 2, Len(s)))

\* params.toString() for the appended <<name, value>> pairs
URLSearchParamsToString(pairs) ==
  JoinWith([j \in 1..Len(pairs) |->
              FormEncode(pairs[j][1]) \o "=" \o FormEncode(pairs[j][2])], "&")

(***************************************************************************)
(* Errors.                                                                 *)
(***************************************************************************)
\* an error of the platform (the rejection of fetch, the SyntaxError of json())
PlatformError(name, message) ==
  [class |-> name, name |-> name, message |-> message,
   statusCode |-> Undefined, statusText |-> Undefined, detail |-> Undefined]

\* how an evaluation completes: with a value, or by throwing
Value(v) == [kind |-> "value", value |-> v]
Thrown(e) == [kind |-> "throw", error |-> e]
IsThrown(x) == "kind" \in DOMAIN x /\ x.kind = "throw"
\* the throw of an async function that its caller returns or awaits: the caller
\* gets a promise already rejected, and its own promise is pending until the
\* rejection reaches it
ThrownInside(e) == [kind |-> "throw", error |-> e, inside |-> TRUE]
\* a throw that came out of a function the caller called
IsThrownInside(x) == IsThrown(x) /\ "inside" \in DOMAIN x

\* what ToString throws for an object it cannot convert
ToPrimitiveError ==
  PlatformError("TypeError", "Cannot convert object to primitive value")

\* what `throw new MakeApiError(statusCode, statusText, detail)` throws: the
\* constructed error, or, when the template literal of the constructor cannot
\* convert a truthy detail, the TypeError that leaves the constructor
MakeApiError(statusCode, statusText, detail) ==
  IF Truthy(detail) /\ ToStringThrows(detail) THEN ToPrimitiveError
  ELSE
  [class |-> "MakeApiError",
   name |-> "MakeApiError",
   message |-> "Make API Error " \o ToString(statusCode) \o ": " \o statusText
                 \o (IF Truthy(detail) THEN " - " \o JSString(detail) ELSE ""),
   statusCode |-> Num(statusCode),
   statusText |-> Str(statusText),
   detail |-> detail]

\* what fetch rejects with when the remote cannot be reached
FetchFailed == PlatformError("TypeError", "fetch failed")

\* what response.json() rejects with when the body stream fails while it is read
BodyTerminated == PlatformError("TypeError", "terminated")

(***************************************************************************)
(* response.json(): the scan the engine's JSON.parse makes of a body text, *)
(* as far as it decides whether the text is a JSON document and, when it   *)
(* is not, which SyntaxError is thrown.  Positions are 1-based indices     *)
(* into the text; the messages count from 0.                               *)
(***************************************************************************)
OkAt(p) == [ok |-> TRUE, pos |-> p, template |-> ""]
\* the scan stops at p; template is the message the parser names, or "" when the
\* message is looked up from the token found there
ErrAt(p, template) == [ok |-> FALSE, pos |-> p, template |-> template]

\* the character at p, "" past the end
CharAt(s, p) == IF p > Len(s) THEN "" ELSE SubSeq(s, p, p)

DecimalDigits == {"0", "1", "2", "3", "4", "5", "6", "7", "8", "9"}

HexDigits ==
  DecimalDigits \cup {"a", "b", "c", "d", "e", "f", "A", "B", "C", "D", "E", "F"}

\* the token a character starts
JsonToken(c) ==
  CASE c = "" -> "EOS"
    [] c \in {" ", "\t", "\n", "\r"} -> "WHITESPACE"
    [] c = "\"" -> "STRING"
    [] c \in DecimalDigits \cup {"-"} -> "NUMBER"
    [] c = "[" -> "LBRACK"
    [] c = "]" -> "RBRACK"
    [] c = "{" -> "LBRACE"
    [] c = "}" -> "RBRACE"
    [] c = ":" -> "COLON"
    [] c = "," -> "COMMA"
    [] c = "t" -> "TRUE_LITERAL"
    [] c = "f" -> "FALSE_LITERAL"
    [] c = "n" -> "NULL_LITERAL"
    [] OTHER -> "ILLEGAL"

RECURSIVE SkipWhitespace(_, _)
SkipWhitespace(s, p) ==
  IF JsonToken(CharAt(s, p)) = "WHITESPACE" THEN SkipWhitespace(s, p + 1) ELSE p

RECURSIVE SkipDigits(_, _)
SkipDigits(s, p) ==
  IF CharAt(s, p) \in DecimalDigits THEN SkipDigits(s, p + 1) ELSE p

\* true, false and null: the first character that differs is the unexpected
\* token, a text that ends inside the literal is an unexpected end
RECURSIVE ScanLiteral(_, _, _)
ScanLiteral(s, p, literal) ==
  IF Len(literal) = 0 THEN OkAt(p)
  ELSE IF CharAt(s, p) = SubSeq(literal, 1, 1)
       THEN ScanLiteral(s, p + 1, SubSeq(literal, 2, Len(literal)))
  ELSE ErrAt(p, "")

\* the exponent of a number, from p
ScanExponent(s, p) ==
  IF CharAt(s, p) \notin {"e", "E"} THEN OkAt(p)
  ELSE LET q == IF CharAt(s, p + 1) \in {"-", "+"} THEN p + 2 ELSE p + 1
       IN  IF CharAt(s, q) \notin DecimalDigits
           THEN ErrAt(q, "Exponent part is missing a number in JSON")
           ELSE OkAt(SkipDigits(s, q))

\* the fraction and exponent of a number, from p
ScanFraction(s, p) ==
  IF CharAt(s, p) # "." THEN ScanExponent(s, p)
  ELSE IF CharAt(s, p + 1) \notin DecimalDigits
       THEN ErrAt(p + 1, "Unterminated fractional number in JSON")
  ELSE ScanExponent(s, SkipDigits(s, p + 1))

ParseJsonNumber(s, p) ==
  LET first == IF CharAt(s, p) = "-" THEN p + 1 ELSE p
  IN  IF CharAt(s, first) = "0"
      THEN IF CharAt(s, first + 1) \in DecimalDigits THEN ErrAt(first + 1, "")
           ELSE ScanFraction(s, first + 1)
      ELSE IF CharAt(s, first) \notin DecimalDigits
           THEN ErrAt(first, "No number after minus sign in JSON")
      ELSE ScanFraction(s, SkipDigits(s, first))

\* the characters of a string literal after its opening quote; a text that ends
\* right after a backslash is an unexpected end, not a bad escape
RECURSIVE ScanJsonStringFrom(_, _)
ScanJsonStringFrom(s, p) ==
  LET c == CharAt(s, p)
      e == CharAt(s, p + 1)
      badHex == {q \in (p + 2)..(p + 5) : CharAt(s, q) \notin HexDigits}
  IN  CASE c = "" -> ErrAt(p, "Unterminated string in JSON")
        [] c = "\"" -> OkAt(p + 1)
        [] c \in {"\t", "\n", "\r", "\f"} ->
             ErrAt(p, "Bad control character in string literal in JSON")
        [] c = "\\" ->
             IF e = "" THEN ErrAt(p + 1, "")
             ELSE IF e \in {"\"", "\\", "/", "b", "f", "n", "r", "t"}
             THEN ScanJsonStringFrom(s, p + 2)
             ELSE IF e # "u" THEN ErrAt(p + 1, "Bad escaped character in JSON")
             ELSE IF badHex # {}
                  THEN ErrAt(CHOOSE q \in badHex : \A o \in badHex : q <= o,
                             "Bad Unicode escape in JSON")
             ELSE ScanJsonStringFrom(s, p + 6)
        [] OTHER -> ScanJsonStringFrom(s, p + 1)

RECURSIVE ParseJsonValue(_, _, _)
RECURSIVE ParseJsonMember(_, _, _, _)
RECURSIVE ParseJsonElement(_, _, _)

\* a property of an object, from its key at p, and the properties after it;
\* expected is the message for a key that is missing.  The parser of node22
\* names a message for the colon of every property, the parser of node20 for
\* the colon of the first property only: for a later one its message is looked
\* up from the token found
ParseJsonMember(s, p, expected, rt) ==
  IF CharAt(s, p) # "\"" THEN ErrAt(p, expected)
  ELSE LET key == ScanJsonStringFrom(s, p + 1)
           colon == SkipWhitespace(s, key.pos)
           value == ParseJsonValue(s, colon + 1, rt)
           after == SkipWhitespace(s, value.pos)
       IN  IF ~key.ok THEN key
           ELSE IF CharAt(s, colon) # ":"
                THEN ErrAt(colon,
                           IF \/ rt = "node22"
                              \/ expected = "Expected property name or '}' in JSON"
                           THEN "Expected ':' after property name in JSON"
                           ELSE "")
           ELSE IF ~value.ok THEN value
           ELSE IF CharAt(s, after) = ","
                THEN ParseJsonMember(s, SkipWhitespace(s, after + 1),
                                     "Expected double-quoted property name in JSON",
                                     rt)
           ELSE IF CharAt(s, after) = "}" THEN OkAt(after + 1)
           ELSE ErrAt(after, "Expected ',' or '}' after property value in JSON")

\* an element of an array, from p, and the elements after it
ParseJsonElement(s, p, rt) ==
  LET value == ParseJsonValue(s, p, rt)
      after == SkipWhitespace(s, value.pos)
  IN  IF ~value.ok THEN value
      ELSE IF CharAt(s, after) = "," THEN ParseJsonElement(s, after + 1, rt)
      ELSE IF CharAt(s, after) = "]" THEN OkAt(after + 1)
      ELSE ErrAt(after, "Expected ',' or ']' after array element in JSON")

ParseJsonValue(s, from, rt) ==
  LET p == SkipWhitespace(s, from)
      token == JsonToken(CharAt(s, p))
      inner == SkipWhitespace(s, p + 1)
  IN  CASE token = "NUMBER" -> ParseJsonNumber(s, p)
        [] token = "STRING" -> ScanJsonStringFrom(s, p + 1)
        [] token = "TRUE_LITERAL" -> ScanLiteral(s, p, "true")
        [] token = "FALSE_LITERAL" -> ScanLiteral(s, p, "false")
        [] token = "NULL_LITERAL" -> ScanLiteral(s, p, "null")
        [] token = "LBRACE" ->
             IF CharAt(s, inner) = "}" THEN OkAt(inner + 1)
             ELSE ParseJsonMember(s, inner, "Expected property name or '}' in JSON",
                                  rt)
        [] token = "LBRACK" ->
             IF CharAt(s, inner) = "]" THEN OkAt(inner + 1)
             ELSE ParseJsonElement(s, inner, rt)
        [] OTHER -> ErrAt(p, "")

\* the Node.js release lines that have the global fetch request calls
\* (api/mcp.ts:645); the repository names none of them, and each words the
\* SyntaxError of JSON.parse in its own way
Runtimes == {"node18", "node20", "node22"}

\* JSON.parse(text) on runtime rt, as far as where it stops
ParseJson(text, rt) ==
  LET value == ParseJsonValue(text, 1, rt)
      after == SkipWhitespace(text, value.pos)
  IN  IF ~value.ok THEN value
      ELSE IF after > Len(text) THEN OkAt(after)
      ELSE ErrAt(after, "Unexpected non-whitespace character after JSON")

\* the texts a caller passes by mistake, reported whole
IsSpecialString(text) ==
  text \in {"[object Object]", "undefined", "Infinity", "NaN"}

\* the number of characters of context shown on each side of the unexpected token
kMaxContextCharacters == 10

\* the 1-based line of the 0-based position pos, and the start of that line
RECURSIVE LineBreaksBefore(_, _)
LineBreaksBefore(s, pos) ==
  IF pos = 0 THEN <<>>
  ELSE LET c == SubSeq(s, pos, pos)
           rest == LineBreaksBefore(s, pos - 1)
       IN  IF c = "\n" \/ (c = "\r" /\ CharAt(s, pos + 1) # "\n")
           THEN Append(rest, pos)
           ELSE rest

\* the position as a message names it: node22 adds the line and the column
FileLocation(s, pos, rt) ==
  LET breaks == LineBreaksBefore(s, pos)
      lineStart == IF Len(breaks) = 0 THEN 0 ELSE breaks[Len(breaks)]
  IN  " at position " \o ToString(pos)
        \o (IF rt = "node22"
            THEN " (line " \o ToString(Len(breaks) + 1)
                   \o " column " \o ToString(pos - lineStart + 1) \o ")"
            ELSE "")

\* the text around the unexpected token, as node20 and node22 quote it
SourceContext(text, pos) ==
  LET length == Len(text)
  IN  IF length < 2 * kMaxContextCharacters + 1 THEN "\"" \o text \o "\""
      ELSE IF pos < kMaxContextCharacters
      THEN "\"" \o SubSeq(text, 1, pos + kMaxContextCharacters) \o "\"..."
      ELSE IF pos < length - kMaxContextCharacters
      THEN "...\""
             \o SubSeq(text, pos - kMaxContextCharacters + 1,
                       pos + kMaxContextCharacters)
             \o "\"..."
      ELSE "...\"" \o SubSeq(text, pos - kMaxContextCharacters + 1, length) \o "\""

\* the message of the SyntaxError for a scan of text that stopped at err, on
\* runtime rt.  node18 knows no message of its own for a construct: it names
\* the token found where the scan stopped.
JsonParseMessage(text, err, rt) ==
  LET pos == err.pos - 1
      c == CharAt(text, err.pos)
      token == JsonToken(c)
  IN  IF rt = "node18"
      THEN CASE token = "EOS" -> "Unexpected end of JSON input"
             [] token = "NUMBER" ->
                  "Unexpected number in JSON" \o FileLocation(text, pos, rt)
             [] token = "STRING" ->
                  "Unexpected string in JSON" \o FileLocation(text, pos, rt)
             [] OTHER ->
                  "Unexpected token " \o c \o " in JSON"
                    \o FileLocation(text, pos, rt)
      ELSE IF err.template # "" THEN err.template \o FileLocation(text, pos, rt)
      ELSE CASE token = "EOS" -> "Unexpected end of JSON input"
             [] token = "NUMBER" ->
                  "Unexpected number in JSON" \o FileLocation(text, pos, rt)
             [] token = "STRING" ->
                  "Unexpected string in JSON" \o FileLocation(text, pos, rt)
             [] OTHER ->
                  IF IsSpecialString(text) THEN "\"" \o text \o "\" is not valid JSON"
                  ELSE "Unexpected token '" \o c \o "', "
                         \o SourceContext(text, pos) \o " is not valid JSON"

\* what response.json() rejects with on a body text that is not JSON
JsonSyntaxError(text, rt) ==
  PlatformError("SyntaxError", JsonParseMessage(text, ParseJson(text, rt), rt))

\* Error.prototype.toString, which String(error) calls
ErrorToString(e) ==
  IF e.name = "" THEN e.message
  ELSE IF e.message = "" THEN e.name
  ELSE e.name \o ": " \o e.message

(***************************************************************************)
(* MakeClient.                                                             *)
(***************************************************************************)
NoClient == [baseUrl |-> "", headers |-> <<>>]

\* new MakeClient(config)
MakeClient(config) ==
  [baseUrl |-> "https://" \o config.zone \o ".make.com/api/v2",
   headers |-> <<<<"Authorization", "Token " \o config.apiToken>>,
                 <<"Content-Type", "application/json">>>>]

\* the entries of queryParams whose value is not undefined, as appended to params
RECURSIVE DefinedParams(_)
DefinedParams(kv) ==
  IF Len(kv) = 0 THEN <<>>
  ELSE (IF kv[1][2].t # "undefined"
        THEN <<<<kv[1][1], JSString(kv[1][2])>>>> ELSE <<>>)
       \o DefinedParams(Tail(kv))

\* the URL that request builds
RequestUrl(c, path, queryParams) ==
  LET queryString ==
        IF Truthy(queryParams)
        THEN URLSearchParamsToString(DefinedParams(queryParams.kv))
        ELSE ""
  IN  c.baseUrl \o path
        \o (IF queryString # "" THEN "?" \o queryString ELSE "")

\* the first half of request: the call of fetch(url, {method, headers, body}),
\* or the TypeError of String(value) for a query parameter it cannot convert,
\* which the method that called request gets as a rejected promise
request(c, method, path, body, queryParams) ==
  IF /\ Truthy(queryParams)
     /\ \E j \in 1..Len(queryParams.kv) : ToStringThrows(queryParams.kv[j][2])
  THEN ThrownInside(ToPrimitiveError)
  ELSE
  [method |-> method,
   url |-> RequestUrl(c, path, queryParams),
   headers |-> c.headers,
   body |-> IF Truthy(body) THEN Str(JSONStringify(body)) ELSE Undefined]

\* obj[k] = v, appended to obj's properties (every key is assigned once)
Assign(o, k, v) == Obj(Append(o.kv, <<k, v>>))

\* if (v) obj[k] = v
AssignIf(o, k, v) == IF Truthy(v) THEN Assign(o, k, v) ELSE o

\* the pagination assignments every list method shares
PgOffsetLimit(q, pagination) ==
  AssignIf(AssignIf(q, "pg[offset]", Get(pagination, "offset")),
           "pg[limit]", Get(pagination, "limit"))

listScenarios(c, teamId, organizationId, pagination) ==
  LET q1 == AssignIf(Obj(<<>>), "teamId", teamId)
      q2 == AssignIf(q1, "organizationId", organizationId)
      q3 == PgOffsetLimit(q2, pagination)
      q4 == AssignIf(q3, "pg[sortBy]", Get(pagination, "sortBy"))
      q5 == AssignIf(q4, "pg[sortDir]", Get(pagination, "sortDir"))
  IN  request(c, "GET", "/scenarios", Undefined, q5)

getScenario(c, scenarioId) ==
  IF ToStringThrows(scenarioId)
  THEN Thrown(ToPrimitiveError)
  ELSE
  request(c, "GET", "/scenarios/" \o JSString(scenarioId), Undefined, Undefined)

\* createScenario posting without the confirmation flag
createScenarioUnconfirmed(c, params) ==
  request(c, "POST", "/scenarios", params, Undefined)

createScenario(c, params) ==
  request(c, "POST", "/scenarios", params, Obj(<<<<"confirmed", Bool(TRUE)>>>>))

updateScenario(c, scenarioId, params) ==
  IF ToStringThrows(scenarioId)
  THEN Thrown(ToPrimitiveError)
  ELSE
  request(c, "PATCH", "/scenarios/" \o JSString(scenarioId), params,
          Obj(<<<<"confirmed", Bool(TRUE)>>>>))

deleteScenario(c, scenarioId) ==
  IF ToStringThrows(scenarioId)
  THEN Thrown(ToPrimitiveError)
  ELSE
  request(c, "DELETE", "/scenarios/" \o JSString(scenarioId), Undefined, Undefined)

activateScenario(c, scenarioId) ==
  IF ToStringThrows(scenarioId)
  THEN Thrown(ToPrimitiveError)
  ELSE
  request(c, "POST", "/scenarios/" \o JSString(scenarioId) \o "/start",
          Undefined, Undefined)

\* deactivateScenario posting to the path of activateScenario
deactivateScenarioStart(c, scenarioId) ==
  IF ToStringThrows(scenarioId)
  THEN Thrown(ToPrimitiveError)
  ELSE
  request(c, "POST", "/scenarios/" \o JSString(scenarioId) \o "/start",
          Undefined, Undefined)

deactivateScenario(c, scenarioId) ==
  IF ToStringThrows(scenarioId)
  THEN Thrown(ToPrimitiveError)
  ELSE
  request(c, "POST", "/scenarios/" \o JSString(scenarioId) \o "/stop",
          Undefined, Undefined)

runScenario(c, scenarioId, params) ==
  IF ToStringThrows(scenarioId)
  THEN Thrown(ToPrimitiveError)
  ELSE
  request(c, "POST", "/scenarios/" \o JSString(scenarioId) \o "/run",
          params, Undefined)

\* states: boolean = false, the default taken when the argument is undefined
\* (no dispatcher passes it)
cloneScenario(c, scenarioId, name, teamId, organizationId, states) ==
  IF ToStringThrows(scenarioId)
  THEN Thrown(ToPrimitiveError)
  ELSE
  request(c, "POST", "/scenarios/" \o JSString(scenarioId) \o "/clone",
          Obj(<<<<"name", name>>, <<"teamId", teamId>>,
                <<"states", IF states = Undefined THEN Bool(FALSE) ELSE states>>>>),
          Obj(<<<<"organizationId", organizationId>>>>))

getScenarioBlueprint(c, scenarioId) ==
  IF ToStringThrows(scenarioId)
  THEN Thrown(ToPrimitiveError)
  ELSE
  request(c, "GET", "/scenarios/" \o JSString(scenarioId) \o "/blueprint",
          Undefined, Undefined)

updateScenarioBlueprint(c, scenarioId, blueprint) ==
  IF ToStringThrows(scenarioId)
  THEN Thrown(ToPrimitiveError)
  ELSE
  request(c, "PATCH", "/scenarios/" \o JSString(scenarioId),
          Obj(<<<<"blueprint", blueprint>>>>),
          Obj(<<<<"confirmed", Bool(TRUE)>>>>))

getScenarioInterface(c, scenarioId) ==
  IF ToStringThrows(scenarioId)
  THEN Thrown(ToPrimitiveError)
  ELSE
  request(c, "GET", "/scenarios/" \o JSString(scenarioId) \o "/interface",
          Undefined, Undefined)

getScenarioLogs(c, scenarioId, pagination) ==
  IF ToStringThrows(scenarioId)
  THEN Thrown(ToPrimitiveError)
  ELSE
  request(c, "GET", "/scenarios/" \o JSString(scenarioId) \o "/logs", Undefined,
          PgOffsetLimit(Obj(<<>>), pagination))

listConnections(c, teamId, pagination) ==
  request(c, "GET", "/connections", Undefined,
          PgOffsetLimit(Obj(<<<<"teamId", teamId>>>>), pagination))

getConnection(c, connectionId) ==
  IF ToStringThrows(connectionId)
  THEN Thrown(ToPrimitiveError)
  ELSE
  request(c, "GET", "/connections/" \o JSString(connectionId), Undefined, Undefined)

deleteConnection(c, connectionId) ==
  IF ToStringThrows(connectionId)
  THEN Thrown(ToPrimitiveError)
  ELSE
  request(c, "DELETE", "/connections/" \o JSString(connectionId),
          Undefined, Undefined)

listHooks(c, teamId, pagination) ==
  request(c, "GET", "/hooks", Undefined,
          PgOffsetLimit(Obj(<<<<"teamId", teamId>>>>), pagination))

getHook(c, hookId) ==
  IF ToStringThrows(hookId)
  THEN Thrown(ToPrimitiveError)
  ELSE
  request(c, "GET", "/hooks/" \o JSString(hookId), Undefined, Undefined)

deleteHook(c, hookId) ==
  IF ToStringThrows(hookId)
  THEN Thrown(ToPrimitiveError)
  ELSE
  request(c, "DELETE", "/hooks/" \o JSString(hookId), Undefined, Undefined)

listDataStores(c, teamId, pagination) ==
  request(c, "GET", "/data-stores", Undefined,
          PgOffsetLimit(Obj(<<<<"teamId", teamId>>>>), pagination))

getDataStore(c, dataStoreId) ==
  IF ToStringThrows(dataStoreId)
  THEN Thrown(ToPrimitiveError)
  ELSE
  request(c, "GET", "/data-stores/" \o JSString(dataStoreId), Undefined, Undefined)

\* createDataStore substituting a size of 1 MB when none is given
createDataStoreDefaultSize(c, teamId, name, maxSize, dataStructureId) ==
  request(c, "POST", "/data-stores",
          Obj(<<<<"teamId", teamId>>, <<"name", name>>,
                <<"maxSizeMB", OrElse(maxSize, Num(1))>>,
                <<"dataStructureId", dataStructureId>>>>),
          Undefined)

\* no dispatcher passes dataStructureId: from them it is undefined
createDataStore(c, teamId, name, maxSize, dataStructureId) ==
  request(c, "POST", "/data-stores",
          Obj(<<<<"teamId", teamId>>, <<"name", name>>, <<"maxSizeMB", maxSize>>,
                <<"dataStructureId", dataStructureId>>>>),
          Undefined)

deleteDataStore(c, dataStoreId) ==
  IF ToStringThrows(dataStoreId)
  THEN Thrown(ToPrimitiveError)
  ELSE
  request(c, "DELETE", "/data-stores/" \o JSString(dataStoreId),
          Undefined, Undefined)

listDataStoreRecords(c, dataStoreId, pagination) ==
  IF ToStringThrows(dataStoreId)
  THEN Thrown(ToPrimitiveError)
  ELSE
  request(c, "GET", "/data-stores/" \o JSString(dataStoreId) \o "/data", Undefined,
          PgOffsetLimit(Obj(<<>>), pagination))

\* createDataStoreRecord posting to a records resource the list does not read
createDataStoreRecordElsewhere(c, dataStoreId, data) ==
  IF ToStringThrows(dataStoreId)
  THEN Thrown(ToPrimitiveError)
  ELSE
  request(c, "POST", "/data-stores/" \o JSString(dataStoreId) \o "/records", data,
          Undefined)

createDataStoreRecord(c, dataStoreId, data) ==
  IF ToStringThrows(dataStoreId)
  THEN Thrown(ToPrimitiveError)
  ELSE
  request(c, "POST", "/data-stores/" \o JSString(dataStoreId) \o "/data", data,
          Undefined)

updateDataStoreRecord(c, dataStoreId, recordKey, data) ==
  IF ToStringThrows(dataStoreId) \/ ToStringThrows(recordKey)
  THEN Thrown(ToPrimitiveError)
  ELSE
  request(c, "PUT",
          "/data-stores/" \o JSString(dataStoreId) \o "/data/" \o JSString(recordKey),
          data, Undefined)

deleteDataStoreRecord(c, dataStoreId, recordKey) ==
  IF ToStringThrows(dataStoreId) \/ ToStringThrows(recordKey)
  THEN Thrown(ToPrimitiveError)
  ELSE
  request(c, "DELETE",
          "/data-stores/" \o JSString(dataStoreId) \o "/data/" \o JSString(recordKey),
          Undefined, Undefined)

listTeams(c, organizationId, pagination) ==
  request(c, "GET", "/teams", Undefined,
          PgOffsetLimit(Obj(<<<<"organizationId", organizationId>>>>), pagination))

getTeam(c, teamId) ==
  IF ToStringThrows(teamId)
  THEN Thrown(ToPrimitiveError)
  ELSE
  request(c, "GET", "/teams/" \o JSString(teamId), Undefined, Undefined)

listOrganizations(c, pagination) ==
  request(c, "GET", "/organizations", Undefined,
          PgOffsetLimit(Obj(<<>>), pagination))

getOrganization(c, organizationId) ==
  IF ToStringThrows(organizationId)
  THEN Thrown(ToPrimitiveError)
  ELSE
  request(c, "GET", "/organizations/" \o JSString(organizationId),
          Undefined, Undefined)

getCurrentUser(c) ==
  request(c, "GET", "/users/me", Undefined, Undefined)

(***************************************************************************)
(* The second half of request: what the awaited fetch and json() yield.    *)
(***************************************************************************)
\* a response body that is a JSON document, and one that is not
JsonBody(v) ==
  [json |-> TRUE, value |-> v, text |-> JSONStringify(v), failed |-> FALSE]
TextBody(s) == [json |-> FALSE, value |-> Undefined, text |-> s, failed |-> FALSE]
\* a body whose stream ends in an error before it is complete
FailedBody == [json |-> FALSE, value |-> Undefined, text |-> "", failed |-> TRUE]

NoResp == [kind |-> "none"]
\* fetch rejects: the remote was not reached
Rejected == [kind |-> "reject"]
HttpResponse(status, statusText, body) ==
  [kind |-> "http", status |-> status, statusText |-> statusText, body |-> body]

\* response.ok
ResponseOk(r) == r.status >= 200 /\ r.status <= 299

\* what response.json() settles with for the body of r, on runtime rt: the
\* value of a JSON document, the SyntaxError of a text that is none, the
\* TypeError of a stream that failed
ResponseJson(r, rt) ==
  IF r.body.failed THEN Thrown(BodyTerminated)
  ELSE IF r.body.json THEN Value(r.body.value)
  ELSE Thrown(JsonSyntaxError(r.body.text, rt))

\* the fallback chain in the other order: detail before message
ErrorDetailDetailFirst(read) ==
  IF read.kind = "throw" THEN Undefined
  ELSE LET errorBody == read.value
       IN  IF errorBody.t \in {"null", "undefined"} THEN Undefined
           ELSE OrElse(OrElse(Get(errorBody, "detail"), Get(errorBody, "message")),
                       Str(JSONStringify(errorBody)))

\* the detail left by the try block around response.json() of a failed
\* response, for what json() settled with: a rejection of json() and the throw
\* of the property access on a null body end in the empty catch, which leaves
\* detail undefined
ErrorDetail(read) ==
  IF read.kind = "throw" THEN Undefined
  ELSE LET errorBody == read.value
       IN  IF errorBody.t \in {"null", "undefined"} THEN Undefined
           ELSE OrElse(OrElse(Get(errorBody, "message"), Get(errorBody, "detail")),
                       Str(JSONStringify(errorBody)))

\* what request yields to its caller once response.json() has settled with
\* read: the error of a response that is not ok, or what json() settled with
RequestOutcome(r, read) ==
  IF ~ResponseOk(r)
  THEN Thrown(MakeApiError(r.status, r.statusText, ErrorDetail(read)))
  ELSE read

\* what the request operation yields to its caller for the response r, on
\* runtime rt
ResponseOutcome(r, rt) ==
  IF r.kind = "reject" THEN Thrown(FetchFailed)
  ELSE RequestOutcome(r, ResponseJson(r, rt))

(***************************************************************************)
(* The tool catalogs.                                                      *)
(***************************************************************************)
Tool(name, properties, required) ==
  [name |-> name, properties |-> properties, required |-> required]

\* src/index.ts: name, declared properties with their types, required fields
tools ==
  << Tool("list_scenarios",
          <<<<"teamId", "number">>, <<"organizationId", "number">>,
            <<"limit", "number">>, <<"offset", "number">>>>, {}),
     Tool("get_scenario", <<<<"scenarioId", "number">>>>, {"scenarioId"}),
     Tool("create_scenario",
          <<<<"teamId", "number">>, <<"name", "string">>, <<"blueprint", "string">>,
            <<"scheduling", "string">>, <<"folderId", "number">>>>,
          {"teamId", "blueprint", "scheduling"}),
     Tool("update_scenario",
          <<<<"scenarioId", "number">>, <<"name", "string">>,
            <<"blueprint", "string">>, <<"scheduling", "string">>,
            <<"folderId", "number">>>>,
          {"scenarioId"}),
     Tool("delete_scenario", <<<<"scenarioId", "number">>>>, {"scenarioId"}),
     Tool("activate_scenario", <<<<"scenarioId", "number">>>>, {"scenarioId"}),
     Tool("deactivate_scenario", <<<<"scenarioId", "number">>>>, {"scenarioId"}),
     Tool("run_scenario",
          <<<<"scenarioId", "number">>, <<"data", "object">>,
            <<"responsive", "boolean">>>>,
          {"scenarioId"}),
     Tool("clone_scenario",
          <<<<"scenarioId", "number">>, <<"name", "string">>,
            <<"teamId", "number">>, <<"organizationId", "number">>>>,
          {"scenarioId", "name", "teamId", "organizationId"}),
     Tool("get_scenario_blueprint", <<<<"scenarioId", "number">>>>, {"scenarioId"}),
     Tool("get_scenario_logs",
          <<<<"scenarioId", "number">>, <<"limit", "number">>>>, {"scenarioId"}),
     Tool("list_connections",
          <<<<"teamId", "number">>, <<"limit", "number">>>>, {"teamId"}),
     Tool("list_hooks",
          <<<<"teamId", "number">>, <<"limit", "number">>>>, {"teamId"}),
     Tool("list_data_stores",
          <<<<"teamId", "number">>, <<"limit", "number">>>>, {"teamId"}),
     Tool("get_data_store", <<<<"dataStoreId", "number">>>>, {"dataStoreId"}),
     Tool("create_data_store",
          <<<<"teamId", "number">>, <<"name", "string">>, <<"maxSize", "number">>>>,
          {"teamId", "name"}),
     Tool("list_data_store_records",
          <<<<"dataStoreId", "number">>, <<"limit", "number">>>>, {"dataStoreId"}),
     Tool("create_data_store_record",
          <<<<"dataStoreId", "number">>, <<"data", "object">>>>,
          {"dataStoreId", "data"}),
     Tool("list_teams",
          <<<<"organizationId", "number">>, <<"limit", "number">>>>,
          {"organizationId"}),
     Tool("list_organizations", <<<<"limit", "number">>>>, {}),
     Tool("get_current_user", <<>>, {}) >>

\* api/mcp.ts: the catalog of the hosted handler
hostedTools ==
  << Tool("list_scenarios",
          <<<<"teamId", "number">>, <<"organizationId", "number">>,
            <<"limit", "number">>, <<"offset", "number">>>>, {}),
     Tool("run_scenario", <<<<"scenarioId", "number">>>>, {"scenarioId"}) >>

\* api/mcp.ts: the tools the second hosted module registers with server.tool,
\* each with the fields of its shape, their types, and those not optional
handlerTools ==
  << Tool("list_scenarios",
          <<<<"teamId", "number">>, <<"organizationId", "number">>,
            <<"limit", "number">>, <<"offset", "number">>>>, {}),
     Tool("get_scenario", <<<<"scenarioId", "number">>>>, {"scenarioId"}),
     Tool("create_scenario",
          <<<<"teamId", "number">>, <<"blueprint", "string">>,
            <<"scheduling", "string">>, <<"folderId", "number">>>>,
          {"teamId", "blueprint", "scheduling"}),
     Tool("update_scenario",
          <<<<"scenarioId", "number">>, <<"name", "string">>,
            <<"blueprint", "string">>, <<"scheduling", "string">>,
            <<"folderId", "number">>>>,
          {"scenarioId"}),
     Tool("delete_scenario", <<<<"scenarioId", "number">>>>, {"scenarioId"}),
     Tool("activate_scenario", <<<<"scenarioId", "number">>>>, {"scenarioId"}),
     Tool("deactivate_scenario", <<<<"scenarioId", "number">>>>, {"scenarioId"}),
     Tool("run_scenario",
          <<<<"scenarioId", "number">>, <<"data", "object">>,
            <<"responsive", "boolean">>>>,
          {"scenarioId"}),
     Tool("clone_scenario",
          <<<<"scenarioId", "number">>, <<"name", "string">>,
            <<"teamId", "number">>, <<"organizationId", "number">>>>,
          {"scenarioId", "name", "teamId", "organizationId"}),
     Tool("get_scenario_blueprint", <<<<"scenarioId", "number">>>>, {"scenarioId"}),
     Tool("get_scenario_logs",
          <<<<"scenarioId", "number">>, <<"limit", "number">>>>, {"scenarioId"}),
     Tool("list_connections",
          <<<<"teamId", "number">>, <<"limit", "number">>>>, {"teamId"}),
     Tool("list_hooks",
          <<<<"teamId", "number">>, <<"limit", "number">>>>, {"teamId"}),
     Tool("list_data_stores",
          <<<<"teamId", "number">>, <<"limit", "number">>>>, {"teamId"}),
     Tool("get_data_store", <<<<"dataStoreId", "number">>>>, {"dataStoreId"}),
     Tool("create_data_store",
          <<<<"teamId", "number">>, <<"name", "string">>, <<"maxSize", "number">>>>,
          {"teamId", "name"}),
     Tool("list_data_store_records",
          <<<<"dataStoreId", "number">>, <<"limit", "number">>>>, {"dataStoreId"}),
     Tool("create_data_store_record",
          <<<<"dataStoreId", "number">>, <<"data", "object">>>>,
          {"dataStoreId", "data"}),
     Tool("list_teams",
          <<<<"organizationId", "number">>, <<"limit", "number">>>>,
          {"organizationId"}),
     Tool("list_organizations", <<<<"limit", "number">>>>, {}),
     Tool("get_current_user", <<>>, {}) >>

\* the process of src/index.ts, the two-tool handler of api/mcp.ts and the
\* handler that createMcpHandler builds
Dispatchers == {"standalone", "hosted", "mcpHandler"}

\* the catalog of a dispatcher
Catalog(d) ==
  CASE d = "standalone" -> tools
    [] d = "hosted" -> hostedTools
    [] d = "mcpHandler" -> handlerTools

ToolNames(d) == {Catalog(d)[j].name : j \in 1..Len(Catalog(d))}

ToolOf(d, name) ==
  LET cat == Catalog(d) IN cat[CHOOSE j \in 1..Len(cat) : cat[j].name = name]

\* the dispatchers that set the ListToolsRequestSchema and CallToolRequestSchema
\* handlers themselves; for the third, the server that createMcpHandler builds
\* answers tools/list and turns what a callback returns or throws into the reply
RequestHandlers == {"standalone", "hosted"}

(***************************************************************************)
(* The dispatchers.                                                        *)
(***************************************************************************)
\* { content: [{ type: "text", text }] }
TextResult(text) ==
  [content |-> <<[type |-> "text", text |-> text]>>, isError |-> Undefined]

\* { content: [{ type: "text", text }], isError: true }
ErrorResult(text) ==
  [content |-> <<[type |-> "text", text |-> text]>>, isError |-> Bool(TRUE)]

\* a handler either awaits a client method, which has called fetch, or returns
Await(method, req) == [kind |-> "await", method |-> method, req |-> req]
Return(envelope) == [kind |-> "return", envelope |-> envelope]

\* the default case without the error flag
UnknownToolUnflagged(name) == Return(TextResult("Unknown tool: " \o name))

UnknownTool(name) == Return(ErrorResult("Unknown tool: " \o name))

\* src/index.ts: the switch of the CallToolRequestSchema handler
StandaloneSwitch(c, name, args) ==
  CASE name = "list_scenarios" ->
         Await("listScenarios",
               listScenarios(c, Get(args, "teamId"), Get(args, "organizationId"),
                             Obj(<<<<"limit", Get(args, "limit")>>,
                                   <<"offset", Get(args, "offset")>>>>)))
    [] name = "get_scenario" ->
         Await("getScenario", getScenario(c, Get(args, "scenarioId")))
    [] name = "create_scenario" ->
         Await("createScenario",
               createScenario(c, Obj(<<<<"teamId", Get(args, "teamId")>>,
                                       <<"blueprint", Get(args, "blueprint")>>,
                                       <<"scheduling", Get(args, "scheduling")>>,
                                       <<"folderId", Get(args, "folderId")>>>>)))
    [] name = "update_scenario" ->
         Await("updateScenario",
               updateScenario(c, Get(args, "scenarioId"),
                              Obj(<<<<"name", Get(args, "name")>>,
                                    <<"blueprint", Get(args, "blueprint")>>,
                                    <<"scheduling", Get(args, "scheduling")>>,
                                    <<"folderId", Get(args, "folderId")>>>>)))
    [] name = "delete_scenario" ->
         Await("deleteScenario", deleteScenario(c, Get(args, "scenarioId")))
    [] name = "activate_scenario" ->
         Await("activateScenario", activateScenario(c, Get(args, "scenarioId")))
    [] name = "deactivate_scenario" ->
         Await("deactivateScenario", deactivateScenario(c, Get(args, "scenarioId")))
    [] name = "run_scenario" ->
         Await("runScenario",
               runScenario(c, Get(args, "scenarioId"),
                           Obj(<<<<"data", Get(args, "data")>>,
                                 <<"responsive", Get(args, "responsive")>>>>)))
    [] name = "clone_scenario" ->
         Await("cloneScenario",
               cloneScenario(c, Get(args, "scenarioId"), Get(args, "name"),
                             Get(args, "teamId"), Get(args, "organizationId"),
                             Undefined))
    [] name = "get_scenario_blueprint" ->
         Await("getScenarioBlueprint",
               getScenarioBlueprint(c, Get(args, "scenarioId")))
    [] name = "get_scenario_logs" ->
         Await("getScenarioLogs",
               getScenarioLogs(c, Get(args, "scenarioId"),
                               Obj(<<<<"limit", Get(args, "limit")>>>>)))
    [] name = "list_connections" ->
         Await("listConnections",
               listConnections(c, Get(args, "teamId"),
                               Obj(<<<<"limit", Get(args, "limit")>>>>)))
    [] name = "list_hooks" ->
         Await("listHooks",
               listHooks(c, Get(args, "teamId"),
                         Obj(<<<<"limit", Get(args, "limit")>>>>)))
    [] name = "list_data_stores" ->
         Await("listDataStores",
               listDataStores(c, Get(args, "teamId"),
                              Obj(<<<<"limit", Get(args, "limit")>>>>)))
    [] name = "get_data_store" ->
         Await("getDataStore", getDataStore(c, Get(args, "dataStoreId")))
    [] name = "create_data_store" ->
         Await("createDataStore",
               createDataStore(c, Get(args, "teamId"), Get(args, "name"),
                               Get(args, "maxSize"), Undefined))
    [] name = "list_data_store_records" ->
         Await("listDataStoreRecords",
               listDataStoreRecords(c, Get(args, "dataStoreId"),
                                    Obj(<<<<"limit", Get(args, "limit")>>>>)))
    [] name = "create_data_store_record" ->
         Await("createDataStoreRecord",
               createDataStoreRecord(c, Get(args, "dataStoreId"), Get(args, "data")))
    [] name = "list_teams" ->
         Await("listTeams",
               listTeams(c, Get(args, "organizationId"),
                         Obj(<<<<"limit", Get(args, "limit")>>>>)))
    [] name = "list_organizations" ->
         Await("listOrganizations",
               listOrganizations(c, Obj(<<<<"limit", Get(args, "limit")>>>>)))
    [] name = "get_current_user" ->
         Await("getCurrentUser", getCurrentUser(c))
    [] OTHER -> UnknownTool(name)

\* api/mcp.ts: the callbacks registered with server.tool, by name; each reads
\* its fields off the arguments object it is called with
ToolCallback(c, name, args) ==
  IF args.t \in {"undefined", "null"} /\ name # "get_current_user"
  THEN Thrown(PlatformError("TypeError",
         "Cannot read properties of " \o JSString(args) \o " (reading '"
           \o ToolOf("mcpHandler", name).properties[1][1] \o "')"))
  ELSE
  CASE name = "list_scenarios" ->
         Await("listScenarios",
               listScenarios(c, Get(args, "teamId"), Get(args, "organizationId"),
                             Obj(<<<<"limit", Get(args, "limit")>>,
                                   <<"offset", Get(args, "offset")>>>>)))
    [] name = "get_scenario" ->
         Await("getScenario", getScenario(c, Get(args, "scenarioId")))
    [] name = "create_scenario" ->
         Await("createScenario",
               createScenario(c, Obj(<<<<"teamId", Get(args, "teamId")>>,
                                       <<"blueprint", Get(args, "blueprint")>>,
                                       <<"scheduling", Get(args, "scheduling")>>,
                                       <<"folderId", Get(args, "folderId")>>>>)))
    [] name = "update_scenario" ->
         Await("updateScenario",
               updateScenario(c, Get(args, "scenarioId"),
                              Obj(<<<<"name", Get(args, "name")>>,
                                    <<"blueprint", Get(args, "blueprint")>>,
                                    <<"scheduling", Get(args, "scheduling")>>,
                                    <<"folderId", Get(args, "folderId")>>>>)))
    [] name = "delete_scenario" ->
         Await("deleteScenario", deleteScenario(c, Get(args, "scenarioId")))
    [] name = "activate_scenario" ->
         Await("activateScenario", activateScenario(c, Get(args, "scenarioId")))
    [] name = "deactivate_scenario" ->
         Await("deactivateScenario", deactivateScenario(c, Get(args, "scenarioId")))
    [] name = "run_scenario" ->
         Await("runScenario",
               runScenario(c, Get(args, "scenarioId"),
                           Obj(<<<<"data", Get(args, "data")>>,
                                 <<"responsive", Get(args, "responsive")>>>>)))
    [] name = "clone_scenario" ->
         Await("cloneScenario",
               cloneScenario(c, Get(args, "scenarioId"), Get(args, "name"),
                             Get(args, "teamId"), Get(args, "organizationId"),
                             Undefined))
    [] name = "get_scenario_blueprint" ->
         Await("getScenarioBlueprint",
               getScenarioBlueprint(c, Get(args, "scenarioId")))
    [] name = "get_scenario_logs" ->
         Await("getScenarioLogs",
               getScenarioLogs(c, Get(args, "scenarioId"),
                               Obj(<<<<"limit", Get(args, "limit")>>>>)))
    [] name = "list_connections" ->
         Await("listConnections",
               listConnections(c, Get(args, "teamId"),
                               Obj(<<<<"limit", Get(args, "limit")>>>>)))
    [] name = "list_hooks" ->
         Await("listHooks",
               listHooks(c, Get(args, "teamId"),
                         Obj(<<<<"limit", Get(args, "limit")>>>>)))
    [] name = "list_data_stores" ->
         Await("listDataStores",
               listDataStores(c, Get(args, "teamId"),
                              Obj(<<<<"limit", Get(args, "limit")>>>>)))
    [] name = "get_data_store" ->
         Await("getDataStore", getDataStore(c, Get(args, "dataStoreId")))
    [] name = "create_data_store" ->
         Await("createDataStore",
               createDataStore(c, Get(args, "teamId"), Get(args, "name"),
                               Get(args, "maxSize"), Undefined))
    [] name = "list_data_store_records" ->
         Await("listDataStoreRecords",
               listDataStoreRecords(c, Get(args, "dataStoreId"),
                                    Obj(<<<<"limit", Get(args, "limit")>>>>)))
    [] name = "create_data_store_record" ->
         Await("createDataStoreRecord",
               createDataStoreRecord(c, Get(args, "dataStoreId"), Get(args, "data")))
    [] name = "list_teams" ->
         Await("listTeams",
               listTeams(c, Get(args, "organizationId"),
                         Obj(<<<<"limit", Get(args, "limit")>>>>)))
    [] name = "list_organizations" ->
         Await("listOrganizations",
               listOrganizations(c, Obj(<<<<"limit", Get(args, "limit")>>>>)))
    [] name = "get_current_user" ->
         Await("getCurrentUser", getCurrentUser(c))

\* the hosted switch with its last case as the default
HostedSwitchFallThrough(c, name, args) ==
  CASE name = "list_scenarios" ->
         Await("listScenarios",
               listScenarios(c, Get(args, "teamId"), Get(args, "organizationId"),
                             Obj(<<<<"limit", Get(args, "limit")>>,
                                   <<"offset", Get(args, "offset")>>>>)))
    [] OTHER ->
         Await("runScenario",
               runScenario(c, Get(args, "scenarioId"), Undefined))

\* api/mcp.ts: the switch of the hosted CallToolRequestSchema handler
HostedSwitch(c, name, args) ==
  CASE name = "list_scenarios" ->
         Await("listScenarios",
               listScenarios(c, Get(args, "teamId"), Get(args, "organizationId"),
                             Obj(<<<<"limit", Get(args, "limit")>>,
                                   <<"offset", Get(args, "offset")>>>>)))
    [] name = "run_scenario" ->
         Await("runScenario",
               runScenario(c, Get(args, "scenarioId"), Undefined))
    [] OTHER -> UnknownTool(name)

\* the result serialized without indentation
SuccessCompact(v) == Return(TextResult(JSONStringify(v)))

\* the handler's return of a fetched result
Success(v) == Return(TextResult(JSONStringifyPretty(v)))

\* src/index.ts: the rest of the try block and the catch
StandaloneSettle(outcome) ==
  IF outcome.kind = "value" THEN Success(outcome.value)
  ELSE IF outcome.error.class = "MakeApiError"
       THEN Return(ErrorResult("Make API Error: " \o outcome.error.message))
  ELSE Thrown(outcome.error)

\* the catch returning the error's name and message as two blocks
HostedSettleTwoBlocks(outcome) ==
  IF outcome.kind = "value" THEN Success(outcome.value)
  ELSE Return([content |-> <<[type |-> "text", text |-> outcome.error.name],
                             [type |-> "text", text |-> outcome.error.message]>>,
               isError |-> Bool(TRUE)])

\* api/mcp.ts: the rest of the try block and the catch
HostedSettle(outcome) ==
  IF outcome.kind = "value" THEN Success(outcome.value)
  ELSE Return(ErrorResult(ErrorToString(outcome.error)))

\* api/mcp.ts: the rest of a server.tool callback, which has no try: what the
\* client method throws rejects the callback
ToolCallbackSettle(outcome) ==
  IF outcome.kind = "value" THEN Success(outcome.value)
  ELSE Thrown(outcome.error)

Settle(d, outcome) ==
  CASE d = "standalone" -> StandaloneSettle(outcome)
    [] d = "hosted" -> HostedSettle(outcome)
    [] d = "mcpHandler" -> ToolCallbackSettle(outcome)

\* the code of dispatcher d up to its first await, or to its return from the
\* default case
Switch(d, c, name, args) ==
  CASE d = "standalone" -> StandaloneSwitch(c, name, args)
    [] d = "hosted" -> HostedSwitch(c, name, args)
    [] d = "mcpHandler" -> ToolCallback(c, name, args)

(***************************************************************************)
(* Inputs: environments, argument bags, remote responses.                  *)
(***************************************************************************)
Environment(token, zone) == [MAKE_API_TOKEN |-> token, MAKE_ZONE |-> zone]

\* a host: the environment a process is started in and the runtime that runs it
Host(environment, rt) == [env |-> environment, runtime |-> rt]

\* the hosts of the concurrent specifications
Hosts ==
  { Host(Environment(Str("tok"), Undefined), "node20"),
    Host(Environment(Str(""), Undefined), "node22"),
    Host(Environment(Undefined, Str("us1")), "node18") }

\* the values an argument of a declared type is drawn from
ValuesOf(type) ==
  CASE type = "number" -> {Num(0), Num(42)}
    [] type = "string" -> {Str(""), Str("x")}
    [] type = "boolean" -> {Bool(FALSE), Bool(TRUE)}
    [] type = "object" -> {Obj(<<>>), Obj(<<<<"k", Str("v")>>>>)}

\* every way to provide or leave out each of the properties
RECURSIVE BagsOver(_)
BagsOver(properties) ==
  IF Len(properties) = 0 THEN {<<>>}
  ELSE LET rest == BagsOver(Tail(properties))
       IN  rest \cup {<<<<properties[1][1], v>>>> \o b :
                        v \in ValuesOf(properties[1][2]), b \in rest}

\* the argument bags of a tool: no arguments object, or any bag over its properties
ArgBags(tool) == {Undefined} \cup {Obj(kv) : kv \in BagsOver(tool.properties)}

\* names no catalog holds
UnknownNames == {"no_such_tool", ""}

\* the invocations of the single-call specification: every tool of the larger
\* catalog with every bag over its schema, and the unknown names
Invocations ==
  UNION {{[name |-> tools[j].name, args |-> a] : a \in ArgBags(tools[j])} :
           j \in 1..Len(tools)}
  \cup {[name |-> n, args |-> a] :
          n \in UnknownNames,
          a \in {Undefined, Obj(<<>>), Obj(<<<<"scenarioId", Num(42)>>>>)}}

\* one value of a declared type
Sample(type) ==
  CASE type = "number" -> Num(42)
    [] type = "string" -> Str("x")
    [] type = "boolean" -> Bool(TRUE)
    [] type = "object" -> Obj(<<<<"k", Str("v")>>>>)

\* the bag that provides every property of a tool
SampleArgs(tool) ==
  Obj([j \in 1..Len(tool.properties) |->
         <<tool.properties[j][1], Sample(tool.properties[j][2])>>])

\* every tool of the catalog of d with that bag, an unknown name, and two calls
\* with an argument that is not of the declared type and that the client
\* cannot convert to a string (the request handlers check no type)
SampleInvocations(d) ==
  {[name |-> Catalog(d)[j].name, args |-> SampleArgs(Catalog(d)[j])] :
     j \in 1..Len(Catalog(d))}
  \cup {[name |-> "no_such_tool", args |-> Obj(<<>>)],
        [name |-> "list_scenarios", args |-> Obj(<<<<"teamId", Unconvertible>>>>)],
        [name |-> "run_scenario", args |-> Obj(<<<<"scenarioId", Unconvertible>>>>)]}

\* the bodies a remote response may carry
Bodies ==
  { TextBody(""),
    TextBody("<html>Bad Gateway</html>"),
    TextBody("not json"),
    TextBody("{\"a\":1}x"),
    TextBody("{\"a\":1,\"b\"}"),
    FailedBody,
    JsonBody(Obj(<<<<"message", Str("busy\tretry")>>>>)),
    JsonBody(JNull),
    JsonBody(Num(5)),
    JsonBody(Arr(<<>>)),
    JsonBody(Obj(<<>>)),
    JsonBody(Obj(<<<<"message", Str("Scenario not found")>>>>)),
    JsonBody(Obj(<<<<"message", Str("")>>>>)),
    JsonBody(Obj(<<<<"detail", Str("Access denied")>>>>)),
    JsonBody(Obj(<<<<"message", Str("")>>, <<"detail", Str("Access denied")>>>>)),
    JsonBody(Obj(<<<<"message", Str("Scenario not found")>>,
                   <<"detail", Str("Access denied")>>>>)),
    JsonBody(Obj(<<<<"message", Obj(<<<<"code", Num(7)>>>>)>>>>)),
    JsonBody(Obj(<<<<"message", Obj(<<<<"toString", JNull>>>>)>>>>)),
    JsonBody(Obj(<<<<"detail", Arr(<<Str("a"), Obj(<<<<"toString", Num(1)>>>>)>>)>>>>)),
    JsonBody(Obj(<<<<"executionId", Str("abc123")>>, <<"status", Str("success")>>>>)),
    JsonBody(Obj(<<<<"scenarios",
                    Arr(<<Obj(<<<<"id", Num(1)>>, <<"name", Str("a")>>>>)>>)>>>>)) }

Statuses ==
  {<<200, "OK">>, <<404, "Not Found">>, <<500, "Internal Server Error">>}

\* what may come back for a request
Responses ==
  {Rejected} \cup {HttpResponse(st[1], st[2], b) : st \in Statuses, b \in Bodies}

\* the invocations and responses of the concurrent specification
ConcurrentInvocations ==
  { [name |-> "get_scenario", args |-> Obj(<< <<"scenarioId", Num(42)>> >>)],
    [name |-> "run_scenario", args |-> Obj(<< <<"scenarioId", Num(42)>> >>)],
    [name |-> "no_such_tool", args |-> Obj(<<>>)] }

ConcurrentResponses ==
  { Rejected,
    HttpResponse(200, "OK",
      JsonBody(Obj(<<<<"executionId", Str("abc123")>>, <<"status", Str("success")>>>>))),
    HttpResponse(404, "Not Found",
      JsonBody(Obj(<<<<"message", Str("Scenario not found")>>>>))) }

(***************************************************************************)
(* The state machine.                                                      *)
(***************************************************************************)
NoCall == [d |-> "none", name |-> "", args |-> Undefined]
NoOutcome == [kind |-> "none"]
\* a promise that has not settled
Pending == [kind |-> "pending"]
NoResult == [kind |-> "none"]
NoListing == [kind |-> "none"]

InitWith(hosts) ==
  /\ \E h \in hosts : env = h.env /\ runtime = h.runtime
  /\ proc = [d \in Dispatchers |-> "loading"]
  /\ client = [d \in Dispatchers |-> NoClient]
  /\ pc = [i \in Inv |-> "idle"]
  /\ call = [i \in Inv |-> NoCall]
  /\ sent = [i \in Inv |-> <<>>]
  /\ resp = [i \in Inv |-> NoResp]
  /\ bodyRead = [i \in Inv |-> NoOutcome]
  /\ settled = [i \in Inv |-> NoOutcome]
  /\ result = [i \in Inv |-> NoResult]
  /\ listing = [d \in Dispatchers |-> NoListing]

\* the standalone process starting like the hosted one, with an empty token
StandaloneStartupLenient ==
  /\ proc["standalone"] = "loading"
  /\ LET API_TOKEN == env.MAKE_API_TOKEN
         ZONE == OrElse(env.MAKE_ZONE, Str("eu1"))
     IN  /\ proc' = [proc EXCEPT !["standalone"] = "running"]
         /\ client' = [client EXCEPT !["standalone"] =
                         MakeClient([apiToken |-> OrElse(API_TOKEN, Str("")).s,
                                     zone |-> ZONE.s])]
  /\ UNCHANGED <<env, runtime, pc, call, sent, resp, settled, result,
                 listing, bodyRead>>

\* src/index.ts: module load of the standalone process
StandaloneStartup ==
  /\ proc["standalone"] = "loading"
  /\ LET API_TOKEN == env.MAKE_API_TOKEN
         ZONE == OrElse(env.MAKE_ZONE, Str("eu1"))
     IN  IF ~Truthy(API_TOKEN)
         THEN /\ proc' = [proc EXCEPT !["standalone"] = "exited"]
              /\ UNCHANGED client
         ELSE /\ proc' = [proc EXCEPT !["standalone"] = "running"]
              /\ client' = [client EXCEPT !["standalone"] =
                              MakeClient([apiToken |-> API_TOKEN.s, zone |-> ZONE.s])]
  /\ UNCHANGED <<env, runtime, pc, call, sent, resp, settled, result,
                 listing, bodyRead>>

\* api/mcp.ts: module load of the hosted handler
HostedStartup ==
  /\ proc["hosted"] = "loading"
  /\ LET API_TOKEN == env.MAKE_API_TOKEN
         ZONE == OrElse(env.MAKE_ZONE, Str("eu1"))
     IN  /\ proc' = [proc EXCEPT !["hosted"] = "running"]
         /\ client' = [client EXCEPT !["hosted"] =
                         MakeClient([apiToken |-> OrElse(API_TOKEN, Str("")).s,
                                     zone |-> ZONE.s])]
  /\ UNCHANGED <<env, runtime, pc, call, sent, resp, settled, result,
                 listing, bodyRead>>

\* api/mcp.ts: module load of the second hosted module
McpHandlerStartup ==
  /\ proc["mcpHandler"] = "loading"
  /\ LET API_TOKEN == OrElse(env.MAKE_API_TOKEN, Str(""))
         ZONE == OrElse(env.MAKE_ZONE, Str("eu1"))
     IN  /\ proc' = [proc EXCEPT !["mcpHandler"] = "running"]
         /\ client' = [client EXCEPT !["mcpHandler"] =
                         MakeClient([apiToken |-> API_TOKEN.s, zone |-> ZONE.s])]
  /\ UNCHANGED <<env, runtime, pc, call, sent, resp, settled, result,
                 listing, bodyRead>>

\* a value of the type a field of a shape is declared with: z.number(),
\* z.string(), z.boolean(), z.record(z.unknown())
OfType(type, v) ==
  CASE type = "number" -> v.t = "num"
    [] type = "string" -> v.t = "str"
    [] type = "boolean" -> v.t = "bool"
    [] type = "object" -> v.t = "obj"

\* the arguments object the server passes to a registered callback: parsed
\* against the shape the tool was registered with, so an object holding every
\* field that is not optional, each field of the type declared for it, and no
\* field outside the shape
Parsed(tool, args) ==
  /\ args.t = "obj"
  /\ \A f \in tool.required : Has(args, f)
  /\ \A j \in 1..Len(args.kv) :
       \E k \in 1..Len(tool.properties) :
         /\ tool.properties[k][1] = args.kv[j][1]
         /\ OfType(tool.properties[k][2], args.kv[j][2])

\* what reaches the code of dispatcher d: any name with any arguments at a
\* CallToolRequestSchema handler, a registered name with its parsed arguments
\* at a server.tool callback
Dispatched(d, name, args) ==
  d = "mcpHandler" => name \in ToolNames(d) /\ Parsed(ToolOf(d, name), args)

\* the handler keeping the URL of its request in the shared client
InvokeLeaky(i, d, name, args) ==
  /\ pc[i] = "idle"
  /\ proc[d] = "running"
  /\ Dispatched(d, name, args)
  /\ LET step == Switch(d, client[d], name, args)
     IN  /\ call' = [call EXCEPT ![i] = [d |-> d, name |-> name, args |-> args]]
         /\ IF step.kind = "await" /\ IsThrown(step.req)
            THEN /\ settled' = [settled EXCEPT ![i] = Thrown(step.req.error)]
                 /\ pc' = [pc EXCEPT ![i] = "awaiting"]
                 /\ UNCHANGED <<sent, result, client>>
            ELSE IF step.kind = "await"
            THEN /\ sent' = [sent EXCEPT ![i] = Append(@, step.req)]
                 /\ pc' = [pc EXCEPT ![i] = "awaiting"]
                 /\ client' = [client EXCEPT ![d].baseUrl = step.req.url]
                 /\ UNCHANGED <<settled, result>>
            ELSE /\ result' = [result EXCEPT ![i] = step]
                 /\ pc' = [pc EXCEPT ![i] = IF step.kind = "return" THEN "returned"
                                            ELSE "faulted"]
                 /\ UNCHANGED <<sent, settled, client>>
  /\ UNCHANGED <<env, runtime, proc, resp, bodyRead, listing>>

\* a tools/call request reaches dispatcher d: the handler or callback runs up to
\* its await of the client method and returns its pending promise, or returns
\* from the default case.  The client method has called fetch, or has thrown
\* before it did (in its own template literal, or in request): the promise the
\* handler awaits is then rejected with no request issued, and the handler
\* comes to its catch when it is resumed
Invoke(i, d, name, args) ==
  /\ pc[i] = "idle"
  /\ proc[d] = "running"
  /\ Dispatched(d, name, args)
  /\ LET step == Switch(d, client[d], name, args)
     IN  /\ call' = [call EXCEPT ![i] = [d |-> d, name |-> name, args |-> args]]
         /\ IF step.kind = "await" /\ IsThrown(step.req)
            THEN /\ settled' = [settled EXCEPT ![i] = Thrown(step.req.error)]
                 /\ pc' = [pc EXCEPT ![i] = "awaiting"]
                 /\ UNCHANGED <<sent, result>>
            ELSE IF step.kind = "await"
            THEN /\ sent' = [sent EXCEPT ![i] = Append(@, step.req)]
                 /\ pc' = [pc EXCEPT ![i] = "awaiting"]
                 /\ UNCHANGED <<settled, result>>
            ELSE /\ result' = [result EXCEPT ![i] = step]
                 /\ pc' = [pc EXCEPT ![i] = IF step.kind = "return" THEN "returned"
                                            ELSE "faulted"]
                 /\ UNCHANGED <<sent, settled>>
  /\ UNCHANGED <<env, runtime, proc, client, resp, bodyRead, listing>>

\* the fetch that request awaits settles for invocation i: it resolves with the
\* response r, whose body is still to be read, or rejects; request and the
\* handler above it are still pending
Respond(i, r) ==
  /\ pc[i] = "awaiting"
  /\ sent[i] # <<>>
  /\ resp[i] = NoResp
  /\ resp' = [resp EXCEPT ![i] = r]
  /\ UNCHANGED <<env, runtime, proc, client, pc, call, sent, bodyRead,
                 settled, result, listing>>

\* request resumes after its fetch has settled: a rejection leaves request as
\* its throw; a response is tested for response.ok and, ok or not, asked for
\* its body with response.json(), whose promise request waits for
RequestResume(i) ==
  /\ pc[i] = "awaiting"
  /\ resp[i] # NoResp
  /\ bodyRead[i] = NoOutcome
  /\ settled[i] = NoOutcome
  /\ IF resp[i].kind = "reject"
     THEN /\ settled' = [settled EXCEPT ![i] = Thrown(FetchFailed)]
          /\ UNCHANGED bodyRead
     ELSE /\ bodyRead' = [bodyRead EXCEPT ![i] = Pending]
          /\ UNCHANGED settled
  /\ UNCHANGED <<env, runtime, proc, client, pc, call, sent, resp, result,
                 listing>>

\* the body of the response has come in, or its stream has failed: the
\* promise of response.json() settles; request is still pending
JsonSettle(i) ==
  /\ bodyRead[i] = Pending
  /\ bodyRead' = [bodyRead EXCEPT ![i] = ResponseJson(resp[i], runtime)]
  /\ UNCHANGED <<env, runtime, proc, client, pc, call, sent, resp, settled,
                 result, listing>>

\* request issuing the call again, once, after a failure
RequestReturnRetrying(i) ==
  /\ pc[i] = "awaiting"
  /\ bodyRead[i].kind \in {"value", "throw"}
  /\ settled[i] = NoOutcome
  /\ IF RequestOutcome(resp[i], bodyRead[i]).kind = "throw" /\ Len(sent[i]) = 1
     THEN /\ sent' = [sent EXCEPT ![i] = Append(@, @[1])]
          /\ resp' = [resp EXCEPT ![i] = NoResp]
          /\ bodyRead' = [bodyRead EXCEPT ![i] = NoOutcome]
          /\ UNCHANGED settled
     ELSE /\ settled' = [settled EXCEPT ![i] =
                           RequestOutcome(resp[i], bodyRead[i])]
          /\ UNCHANGED <<sent, resp, bodyRead>>
  /\ UNCHANGED <<env, runtime, proc, client, pc, call, result, listing>>

\* request resumes after response.json() has settled, and returns or throws to
\* the client method the handler awaits
RequestReturn(i) ==
  /\ pc[i] = "awaiting"
  /\ bodyRead[i].kind \in {"value", "throw"}
  /\ settled[i] = NoOutcome
  /\ settled' = [settled EXCEPT ![i] = RequestOutcome(resp[i], bodyRead[i])]
  /\ UNCHANGED <<env, runtime, proc, client, pc, call, sent, resp, bodyRead,
                 result, listing>>

\* the handler resumes from its await with what the client method yielded
\* (what request returned or threw, or the throw that came before fetch), and
\* returns or throws
HandlerResume(i) ==
  /\ pc[i] = "awaiting"
  /\ call[i].name \in ToolNames(call[i].d)
  /\ settled[i] # NoOutcome
  /\ LET end == Settle(call[i].d, settled[i])
     IN  /\ result' = [result EXCEPT ![i] = end]
         /\ pc' = [pc EXCEPT ![i] = IF end.kind = "return" THEN "returned"
                                    ELSE "faulted"]
  /\ UNCHANGED <<env, runtime, proc, client, call, sent, resp, settled,
                 listing, bodyRead>>

\* concurrent invocations of the three dispatchers
Init == InitWith(Hosts)

Next ==
  \/ StandaloneStartup
  \/ HostedStartup
  \/ McpHandlerStartup
  \/ \E i \in Inv, d \in Dispatchers, c \in ConcurrentInvocations :
       Invoke(i, d, c.name, c.args)
  \/ \E i \in Inv, r \in ConcurrentResponses : Respond(i, r)
  \/ \E i \in Inv : RequestResume(i)
  \/ \E i \in Inv : JsonSettle(i)
  \/ \E i \in Inv : RequestReturn(i)
  \/ \E i \in Inv : HandlerResume(i)

Spec == Init /\ [][Next]_vars

\* one invocation, over every tool and argument bag
InitCall ==
  InitWith({Host(Environment(Str("tok"), Undefined), "node20"),
            Host(Environment(Undefined, Str("us1")), "node22")})

NextCall ==
  \/ StandaloneStartup
  \/ HostedStartup
  \/ McpHandlerStartup
  \/ \E d \in Dispatchers, c \in Invocations : Invoke(1, d, c.name, c.args)
  \/ \E r \in ConcurrentResponses : Respond(1, r)
  \/ RequestResume(1)
  \/ JsonSettle(1)
  \/ RequestReturn(1)
  \/ HandlerResume(1)

SpecCall == InitCall /\ [][NextCall]_vars

\* one invocation of every tool of every catalog, over every response
NextAnswer ==
  \/ StandaloneStartup
  \/ HostedStartup
  \/ McpHandlerStartup
  \/ \E d \in Dispatchers :
       \E c \in SampleInvocations(d) : Invoke(1, d, c.name, c.args)
  \/ \E r \in Responses : Respond(1, r)
  \/ RequestResume(1)
  \/ JsonSettle(1)
  \/ RequestReturn(1)
  \/ HandlerResume(1)

\* every runtime, for the messages the responses are answered with
InitAnswer ==
  InitWith({Host(e, rt) :
              e \in {Environment(Str("tok"), Undefined),
                     Environment(Undefined, Str("us1"))},
              rt \in Runtimes})

SpecAnswer == InitAnswer /\ [][NextAnswer]_vars

\* the calls both request handlers have a case for
SharedInvocations ==
  { [name |-> "list_scenarios", args |-> Obj(<< <<"teamId", Num(42)>> >>)],
    [name |-> "run_scenario", args |-> Obj(<< <<"scenarioId", Num(42)>> >>)] }

\* the two request handlers side by side on the calls they share
NextShared ==
  \/ StandaloneStartup
  \/ HostedStartup
  \/ \E i \in Inv, d \in RequestHandlers, c \in SharedInvocations :
       Invoke(i, d, c.name, c.args)
  \/ \E i \in Inv, r \in ConcurrentResponses : Respond(i, r)
  \/ \E i \in Inv : RequestResume(i)
  \/ \E i \in Inv : JsonSettle(i)
  \/ \E i \in Inv : RequestReturn(i)
  \/ \E i \in Inv : HandlerResume(i)

SpecShared == Init /\ [][NextShared]_vars

(***************************************************************************)
(* The tools/list handlers.                                                *)
(***************************************************************************)
\* a tools/list request reaches dispatcher d: the handler returns { tools }
ListTools(d) ==
  /\ d \in RequestHandlers
  /\ proc[d] = "running"
  /\ listing' = [listing EXCEPT ![d] = [kind |-> "return", tools |-> Catalog(d)]]
  /\ UNCHANGED <<env, runtime, proc, client, pc, call, sent, resp,
                 settled, result, bodyRead>>

\* listings interleaved with invocations, each answered with a success
ListResponses ==
  {HttpResponse(200, "OK", JsonBody(Obj(<< <<"id", Num(42)>> >>)))}

\* the invocations made beside the listings: those of the concurrent
\* specification and one whose teamId is not of the type the listing declares
\* and cannot be converted to a string
ListInvocations ==
  ConcurrentInvocations
    \cup {[name |-> "list_scenarios", args |-> Obj(<< <<"teamId", Unconvertible>> >>)]}

NextList ==
  \/ StandaloneStartup
  \/ HostedStartup
  \/ McpHandlerStartup
  \/ \E d \in Dispatchers : ListTools(d)
  \/ \E i \in Inv, d \in Dispatchers, c \in ListInvocations :
       Invoke(i, d, c.name, c.args)
  \/ \E i \in Inv, r \in ListResponses : Respond(i, r)
  \/ \E i \in Inv : RequestResume(i)
  \/ \E i \in Inv : JsonSettle(i)
  \/ \E i \in Inv : RequestReturn(i)
  \/ \E i \in Inv : HandlerResume(i)

SpecList == Init /\ [][NextList]_vars

(***************************************************************************)
(* The methods of the client, called directly.                             *)
(***************************************************************************)
ListMethods ==
  {"listScenarios", "getScenarioLogs", "listConnections", "listHooks",
   "listDataStores", "listDataStoreRecords", "listTeams", "listOrganizations"}

\* client.<method>(id, pagination); listScenarios takes the id as its teamId
\* and listOrganizations takes none
ListCall(c, method, id, pagination) ==
  CASE method = "listScenarios" -> listScenarios(c, id, Undefined, pagination)
    [] method = "getScenarioLogs" -> getScenarioLogs(c, id, pagination)
    [] method = "listConnections" -> listConnections(c, id, pagination)
    [] method = "listHooks" -> listHooks(c, id, pagination)
    [] method = "listDataStores" -> listDataStores(c, id, pagination)
    [] method = "listDataStoreRecords" -> listDataStoreRecords(c, id, pagination)
    [] method = "listTeams" -> listTeams(c, id, pagination)
    [] method = "listOrganizations" -> listOrganizations(c, pagination)

\* a property left out, or given one of the values
Opt(key, values) == {<<>>} \cup {<< <<key, v>> >> : v \in values}

\* the PaginationParams objects a caller may pass, and no object at all
Paginations ==
  {Undefined} \cup
  {Obj(o \o l \o b \o s) :
     o \in Opt("offset", {Num(0), Num(42)}),
     l \in Opt("limit", {Num(0), Num(42)}),
     b \in Opt("sortBy", {Str("name")}),
     s \in Opt("sortDir", {Str("asc"), Str("desc")})}

\* a pagination outside the declared type, whose limit cannot be converted to
\* a string
UntypedPaginations == {Obj(<< <<"limit", Unconvertible>> >>)}

\* a caller holding the client of d calls a list method, which returns its
\* promise: pending when request has called fetch, pending too when request
\* has thrown before it did (the method returns the rejected promise of
\* request and takes its rejection later), rejected when the method's own
\* template literal has thrown
CallList(i, d, method, pagination) ==
  /\ pc[i] = "idle"
  /\ proc[d] = "running"
  /\ call' = [call EXCEPT ![i] = [d |-> d, name |-> method, args |-> pagination]]
  /\ LET req == ListCall(client[d], method, Num(42), pagination)
     IN  IF IsThrownInside(req)
         THEN /\ settled' = [settled EXCEPT ![i] = Thrown(req.error)]
              /\ pc' = [pc EXCEPT ![i] = "awaiting"]
              /\ UNCHANGED <<sent, result>>
         ELSE IF IsThrown(req)
         THEN /\ result' = [result EXCEPT ![i] = req]
              /\ pc' = [pc EXCEPT ![i] = "faulted"]
              /\ UNCHANGED <<sent, settled>>
         ELSE /\ sent' = [sent EXCEPT ![i] = Append(@, req)]
              /\ pc' = [pc EXCEPT ![i] = "awaiting"]
              /\ UNCHANGED <<settled, result>>
  /\ UNCHANGED <<env, runtime, proc, client, resp, bodyRead, listing>>

\* the methods of the client that take no pagination
DirectMethods ==
  {"getScenario", "createScenario", "updateScenario", "deleteScenario",
   "activateScenario", "deactivateScenario", "runScenario", "cloneScenario",
   "getScenarioBlueprint", "updateScenarioBlueprint", "getScenarioInterface",
   "getConnection", "deleteConnection", "getHook", "deleteHook",
   "getDataStore", "createDataStore", "deleteDataStore",
   "createDataStoreRecord", "updateDataStoreRecord", "deleteDataStoreRecord",
   "getTeam", "getOrganization", "getCurrentUser"}

\* client.<method>(...a)
DirectCall(c, method, a) ==
  CASE method = "getScenario" -> getScenario(c, a[1])
    [] method = "createScenario" -> createScenario(c, a[1])
    [] method = "updateScenario" -> updateScenario(c, a[1], a[2])
    [] method = "deleteScenario" -> deleteScenario(c, a[1])
    [] method = "activateScenario" -> activateScenario(c, a[1])
    [] method = "deactivateScenario" -> deactivateScenario(c, a[1])
    [] method = "runScenario" -> runScenario(c, a[1], a[2])
    [] method = "cloneScenario" -> cloneScenario(c, a[1], a[2], a[3], a[4], a[5])
    [] method = "getScenarioBlueprint" -> getScenarioBlueprint(c, a[1])
    [] method = "updateScenarioBlueprint" -> updateScenarioBlueprint(c, a[1], a[2])
    [] method = "getScenarioInterface" -> getScenarioInterface(c, a[1])
    [] method = "getConnection" -> getConnection(c, a[1])
    [] method = "deleteConnection" -> deleteConnection(c, a[1])
    [] method = "getHook" -> getHook(c, a[1])
    [] method = "deleteHook" -> deleteHook(c, a[1])
    [] method = "getDataStore" -> getDataStore(c, a[1])
    [] method = "createDataStore" -> createDataStore(c, a[1], a[2], a[3], a[4])
    [] method = "deleteDataStore" -> deleteDataStore(c, a[1])
    [] method = "createDataStoreRecord" -> createDataStoreRecord(c, a[1], a[2])
    [] method = "updateDataStoreRecord" ->
         updateDataStoreRecord(c, a[1], a[2], a[3])
    [] method = "deleteDataStoreRecord" -> deleteDataStoreRecord(c, a[1], a[2])
    [] method = "getTeam" -> getTeam(c, a[1])
    [] method = "getOrganization" -> getOrganization(c, a[1])
    [] method = "getCurrentUser" -> getCurrentUser(c)

\* the arguments each of these methods is called with
DirectArgs(method) ==
  CASE method = "createScenario" ->
         <<Obj(<< <<"teamId", Num(42)>>, <<"blueprint", Str("{}")>>,
                  <<"scheduling", Str("{}")>> >>)>>
    [] method = "updateScenario" -> <<Num(42), Obj(<< <<"name", Str("x")>> >>)>>
    [] method = "runScenario" -> <<Num(42), Undefined>>
    [] method = "cloneScenario" ->
         <<Num(42), Str("x"), Num(1), Num(2), Bool(TRUE)>>
    [] method = "updateScenarioBlueprint" -> <<Num(42), Str("{}")>>
    [] method = "createDataStore" -> <<Num(1), Str("x"), Num(5), Num(7)>>
    [] method = "createDataStoreRecord" ->
         <<Num(42), Obj(<< <<"k", Str("v")>> >>)>>
    [] method = "updateDataStoreRecord" ->
         <<Num(42), Str("k1"), Obj(<< <<"k", Str("v")>> >>)>>
    [] method = "deleteDataStoreRecord" -> <<Num(42), Str("k1")>>
    [] method = "getCurrentUser" -> <<>>
    [] OTHER -> <<Num(42)>>

\* the argument lists a method is called with: for three of the methods also
\* one whose last identifier cannot be converted to a string (cloneScenario
\* passes it to request as a query parameter, the other two put it in a path)
DirectArgSets(method) ==
  {DirectArgs(method)}
    \cup (IF method \in {"getScenario", "deleteDataStoreRecord"}
          THEN {[DirectArgs(method) EXCEPT ![Len(DirectArgs(method))] = Unconvertible]}
          ELSE IF method = "cloneScenario"
          THEN {[DirectArgs(method) EXCEPT ![4] = Unconvertible]}
          ELSE {})

\* a caller holding the client of d calls one of these methods, which returns
\* its promise: pending when request has called fetch or has thrown before it
\* did, rejected when the method's own template literal has thrown
CallMethod(i, d, method, a) ==
  /\ pc[i] = "idle"
  /\ proc[d] = "running"
  /\ call' = [call EXCEPT ![i] = [d |-> d, name |-> method, args |-> Arr(a)]]
  /\ LET req == DirectCall(client[d], method, a)
     IN  IF IsThrownInside(req)
         THEN /\ settled' = [settled EXCEPT ![i] = Thrown(req.error)]
              /\ pc' = [pc EXCEPT ![i] = "awaiting"]
              /\ UNCHANGED <<sent, result>>
         ELSE IF IsThrown(req)
         THEN /\ result' = [result EXCEPT ![i] = req]
              /\ pc' = [pc EXCEPT ![i] = "faulted"]
              /\ UNCHANGED <<sent, settled>>
         ELSE /\ sent' = [sent EXCEPT ![i] = Append(@, req)]
              /\ pc' = [pc EXCEPT ![i] = "awaiting"]
              /\ UNCHANGED <<settled, result>>
  /\ UNCHANGED <<env, runtime, proc, client, resp, bodyRead, listing>>

\* what the promise of a method fulfils with: what request yielded, except that
\* deleteDataStoreRecord awaits request and returns nothing
Fulfilled(method, value) ==
  [kind |-> "resolve",
   value |-> IF method = "deleteDataStoreRecord" THEN Undefined ELSE value]

\* the promise of a direct call settles with what request yielded
MethodSettle(i) ==
  /\ pc[i] = "awaiting"
  /\ call[i].name \in ListMethods \cup DirectMethods
  /\ settled[i] # NoOutcome
  /\ result' = [result EXCEPT ![i] =
                  IF settled[i].kind = "value"
                  THEN Fulfilled(call[i].name, settled[i].value)
                  ELSE Thrown(settled[i].error)]
  /\ pc' = [pc EXCEPT ![i] = IF settled[i].kind = "value" THEN "returned"
                             ELSE "faulted"]
  /\ UNCHANGED <<env, runtime, proc, client, call, sent, resp, settled,
                 listing, bodyRead>>

NextClient ==
  \/ StandaloneStartup
  \/ HostedStartup
  \/ McpHandlerStartup
  \/ \E d \in Dispatchers, method \in ListMethods :
       \E pagination \in Paginations \cup UntypedPaginations :
         CallList(1, d, method, pagination)
  \/ \E d \in Dispatchers, method \in DirectMethods :
       \E a \in DirectArgSets(method) : CallMethod(1, d, method, a)
  \/ \E r \in ConcurrentResponses : Respond(1, r)
  \/ RequestResume(1)
  \/ JsonSettle(1)
  \/ RequestReturn(1)
  \/ MethodSettle(1)

SpecClient == InitCall /\ [][NextClient]_vars

(***************************************************************************)
(* The standalone dispatcher against a stub remote that stores what is     *)
(* posted to a resource and lists it back.                                 *)
(***************************************************************************)
\* the resource a URL names: the URL without its query string
ResourceOf(url) ==
  IF Contains(url, "?")
  THEN LET q == CHOOSE j \in 1..Len(url) :
                  /\ SubSeq(url, j, j) = "?"
                  /\ \A m \in 1..(j-1) : SubSeq(url, m, m) # "?"
       IN  SubSeq(url, 1, q - 1)
  ELSE url

\* the JSON value a posted body text stands for
ParseRecord(text) == CHOOSE v \in ValuesOf("object") : JSONStringify(v) = text

\* the stub has stored the body that invocation j posted
Stored(j) ==
  /\ Len(sent[j]) = 1
  /\ sent[j][1].method = "POST"
  /\ sent[j][1].body # Undefined
  /\ resp[j] # NoResp

\* the records the stub holds for a resource, taken over invocations 1..n
RECURSIVE StubRecords(_, _)
StubRecords(resource, n) ==
  IF n = 0 THEN <<>>
  ELSE StubRecords(resource, n - 1)
         \o (IF Stored(n) /\ ResourceOf(sent[n][1].url) = resource
             THEN <<ParseRecord(sent[n][1].body.s)>> ELSE <<>>)

\* the stub's answer to the request of invocation i
StubAnswer(i) ==
  LET req == sent[i][1]
  IN  IF req.method = "POST"
      THEN IF req.body = Undefined
           THEN HttpResponse(400, "Bad Request",
                             JsonBody(Obj(<< <<"message", Str("no record")>> >>)))
           ELSE HttpResponse(200, "OK",
                             JsonBody(Obj(<< <<"record", ParseRecord(req.body.s)>> >>)))
      ELSE HttpResponse(200, "OK",
                        JsonBody(Obj(<< <<"records",
                                         Arr(StubRecords(ResourceOf(req.url), NumInv))>> >>)))

StubRespond(i) == pc[i] = "awaiting" /\ Respond(i, StubAnswer(i))

\* records created in and listed from two data stores
StubInvocations ==
  {[name |-> "create_data_store_record",
    args |-> Obj(<< <<"dataStoreId", s>>, <<"data", r>> >>)] :
      s \in ValuesOf("number"), r \in ValuesOf("object")}
  \cup
  {[name |-> "create_data_store_record", args |-> Obj(<< <<"dataStoreId", Num(42)>> >>)]}
  \cup
  {[name |-> "list_data_store_records",
    args |-> Obj(<< <<"dataStoreId", s>> >> \o l)] :
      s \in ValuesOf("number"), l \in Opt("limit", {Num(42)})}

InitStub == InitWith({Host(Environment(Str("tok"), Undefined), "node20")})

NextStub ==
  \/ StandaloneStartup
  \/ \E i \in Inv, c \in StubInvocations : Invoke(i, "standalone", c.name, c.args)
  \/ \E i \in Inv : StubRespond(i)
  \/ \E i \in Inv : RequestResume(i)
  \/ \E i \in Inv : JsonSettle(i)
  \/ \E i \in Inv : RequestReturn(i)
  \/ \E i \in Inv : HandlerResume(i)

SpecStub == InitStub /\ [][NextStub]_vars

(***************************************************************************)
(* Properties.                                                             *)
(***************************************************************************)
\* invocation i has been received by a dispatcher
Invoked(i) == pc[i] # "idle"

\* the handler or callback of invocation i has returned or thrown
Finished(i) == pc[i] \in {"returned", "faulted"}

\* what the handler of invocation i awaits has yielded: request has returned or
\* thrown, or the client method has thrown before fetch
Settled(i) == settled[i] # NoOutcome

\* the name of invocation i is in the catalog of its dispatcher
InCatalog(i) == call[i].name \in ToolNames(call[i].d)

\* the invocation has returned an envelope
ReturnedEnvelope(i) == pc[i] = "returned" /\ result[i].kind = "return"

\* the envelope holds exactly one content block, of type text
OneTextBlock(e) == Len(e.content) = 1 /\ e.content[1].type = "text"

\* the remote answered invocation i with a status that is not 2xx
RemoteFailure(i) == resp[i].kind = "http" /\ ~ResponseOk(resp[i])

\* the remote answered invocation i with a 2xx status and a JSON body
RemoteSuccess(i) ==
  resp[i].kind = "http" /\ ResponseOk(resp[i]) /\ resp[i].body.json

\* C1: an invocation whose tool name is not in the catalog returns, whatever
\* its arguments, an error-flagged envelope with one text block naming the
\* unknown tool, and never faults.
C1_UnknownToolIsErrorResult ==
  \A i \in Inv :
    (Invoked(i) /\ ~InCatalog(i)) =>
      /\ ReturnedEnvelope(i)
      /\ result[i].envelope.isError = Bool(TRUE)
      /\ OneTextBlock(result[i].envelope)
      /\ result[i].envelope.content[1].text = "Unknown tool: " \o call[i].name
      /\ Contains(result[i].envelope.content[1].text, call[i].name)

\* an unknown name with a non-empty argument bag was answered by each dispatcher's
\* default case: here the hosted one, for a name only the other catalog holds
C1_Witness ==
  \E i \in Inv :
    /\ call[i].d = "hosted"
    /\ call[i].name = "get_scenario"
    /\ call[i].args = Obj(<<<<"scenarioId", Num(42)>>>>)
    /\ ReturnedEnvelope(i)
    /\ result[i].envelope.content[1].text = "Unknown tool: get_scenario"

\* C2: for every catalog tool, when the remote answers the tool's request with
\* a non-2xx status, the invocation returns (it does not fault) an
\* error-flagged envelope of one text block whose text contains the status
\* code and, when the body carried one, the remote detail message (the
\* message, or the detail field of a body without a message).
C2_RemoteFailureIsErrorResult ==
  \A i \in Inv :
    (RemoteFailure(i) /\ Finished(i)) =>
      /\ InCatalog(i)
      /\ ReturnedEnvelope(i)
      /\ result[i].envelope.isError = Bool(TRUE)
      /\ OneTextBlock(result[i].envelope)
      /\ LET text == result[i].envelope.content[1].text
             body == resp[i].body
         IN  /\ Contains(text, ToString(resp[i].status))
             /\ (body.json /\ Get(body.value, "message").t = "str") =>
                  Contains(text, Get(body.value, "message").s)
             /\ (body.json /\ ~Has(body.value, "message")
                   /\ Get(body.value, "detail").t = "str") =>
                  Contains(text, Get(body.value, "detail").s)

\* the request operation of invocation i failed with something that is not the
\* client's structured error
OtherFailure(i) ==
  settled[i].kind = "throw" /\ settled[i].error.class # "MakeApiError"

\* C3: a failure that is not the API client's structured error is never turned
\* into a tool result: the invocation faults, in every dispatcher.
C3_OtherFailurePropagates ==
  \A i \in Inv :
    (OtherFailure(i) /\ Finished(i)) =>
      (pc[i] = "faulted" /\ result[i].kind = "throw")

\* C4: for every catalog tool and every remote success with JSON value v, the
\* invocation returns an envelope without error flag whose single text block is
\* the pretty-printed JSON of v.
C4_SuccessIsPrettyJson ==
  \A i \in Inv :
    (RemoteSuccess(i) /\ Finished(i)) =>
      /\ InCatalog(i)
      /\ ReturnedEnvelope(i)
      /\ result[i].envelope.isError = Undefined
      /\ OneTextBlock(result[i].envelope)
      /\ result[i].envelope.content[1].text
           = JSONStringifyPretty(resp[i].body.value)

\* run_scenario answered 200 with {"executionId":"abc123","status":"success"}
C4_Witness ==
  \E i \in Inv :
    /\ call[i].d = "standalone"
    /\ call[i].name = "run_scenario"
    /\ resp[i] = HttpResponse(200, "OK",
                   JsonBody(Obj(<<<<"executionId", Str("abc123")>>,
                                  <<"status", Str("success")>>>>)))
    /\ ReturnedEnvelope(i)
    /\ result[i].envelope.isError = Undefined
    /\ result[i].envelope.content[1].text
         = "{\n  \"executionId\": \"abc123\",\n  \"status\": \"success\"\n}"

\* C5: every invocation that returns, for any name and argument bag, returns an
\* envelope of exactly one text block that is either a success payload (no
\* error flag, the remote having answered with success) or an error payload
\* (error flag set, the name unknown or the request failed).
C5_EnvelopeShape ==
  \A i \in Inv :
    pc[i] = "returned" =>
      /\ result[i].kind = "return"
      /\ DOMAIN result[i].envelope = {"content", "isError"}
      /\ OneTextBlock(result[i].envelope)
      /\ \/ /\ result[i].envelope.isError = Undefined
            /\ RemoteSuccess(i)
         \/ /\ result[i].envelope.isError = Bool(TRUE)
            /\ ~RemoteSuccess(i)

\* both payloads were returned: the hosted handler turned a failed fetch into an
\* error payload
C5_Witness ==
  \E i \in Inv :
    /\ call[i].d = "hosted"
    /\ call[i].name = "list_scenarios"
    /\ resp[i] = Rejected
    /\ ReturnedEnvelope(i)
    /\ result[i].envelope.isError = Bool(TRUE)
    /\ result[i].envelope.content[1].text = "TypeError: fetch failed"

\* the query string of a URL: what follows its first "?"
QueryOf(url) ==
  IF Contains(url, "?")
  THEN LET q == CHOOSE j \in 1..Len(url) :
                  /\ SubSeq(url, j, j) = "?"
                  /\ \A m \in 1..(j-1) : SubSeq(url, m, m) # "?"
       IN  SubSeq(url, q + 1, Len(url))
  ELSE ""

\* the query string holds the parameter key with the value text
HasParam(url, key, text) ==
  Contains("&" \o QueryOf(url) \o "&",
           "&" \o FormEncode(key) \o "=" \o FormEncode(text) \o "&")

\* the query string holds the parameter key, with whatever value
HasKey(url, key) ==
  Contains("&" \o QueryOf(url), "&" \o FormEncode(key) \o "=")

\* the arguments a tool's client method places in the query, with their keys
QueryArgs(name) ==
  CASE name = "list_scenarios" ->
         {<<"teamId", "teamId">>, <<"organizationId", "organizationId">>,
          <<"limit", "pg[limit]">>, <<"offset", "pg[offset]">>}
    [] name \in {"list_connections", "list_hooks", "list_data_stores"} ->
         {<<"teamId", "teamId">>, <<"limit", "pg[limit]">>}
    [] name = "list_teams" ->
         {<<"organizationId", "organizationId">>, <<"limit", "pg[limit]">>}
    [] name \in {"get_scenario_logs", "list_data_store_records",
                 "list_organizations"} ->
         {<<"limit", "pg[limit]">>}
    [] name = "clone_scenario" -> {<<"organizationId", "organizationId">>}
    [] OTHER -> {}

\* C6: in the URL of every request built from an invocation, a query parameter
\* whose argument is absent is omitted, and one whose argument is provided,
\* zero and the empty string included, is present with that value.
C6_ProvidedQueryParamsKept ==
  \A i \in Inv :
    (Invoked(i) /\ InCatalog(i)) =>
      \A fk \in QueryArgs(call[i].name) :
        LET v == Get(call[i].args, fk[1])
            url == sent[i][1].url
        IN  IF v.t = "undefined" THEN ~HasKey(url, fk[2])
            ELSE HasParam(url, fk[2], JSString(v))

\* C7 as stated: for a non-2xx response the request operation fails with the
\* API error; when the body is JSON with a message field the error's detail is
\* that message, and when the body is not JSON the error carries the status
\* code and status text and no detail.
C7_AnyMessageIsDetail ==
  \A i \in Inv :
    (RemoteFailure(i) /\ Settled(i)) =>
      /\ settled[i].kind = "throw"
      /\ settled[i].error.class = "MakeApiError"
      /\ settled[i].error.statusCode = Num(resp[i].status)
      /\ settled[i].error.statusText = Str(resp[i].statusText)
      /\ (resp[i].body.json /\ Has(resp[i].body.value, "message")) =>
           settled[i].error.detail = Get(resp[i].body.value, "message")
      /\ ~resp[i].body.json => settled[i].error.detail = Undefined

\* C7, amended: for a non-2xx response whose body is JSON with a message that
\* is a non-empty string, the request operation fails with the API error and
\* the error's detail is that message; for one whose body is not JSON it
\* fails with the API error of that status code and status text and no detail.
C7_NonEmptyMessageIsDetail ==
  \A i \in Inv :
    (RemoteFailure(i) /\ Settled(i)) =>
      /\ ( /\ resp[i].body.json
           /\ Get(resp[i].body.value, "message").t = "str"
           /\ Get(resp[i].body.value, "message").s # "" ) =>
           /\ settled[i].kind = "throw"
           /\ settled[i].error.class = "MakeApiError"
           /\ settled[i].error.statusCode = Num(resp[i].status)
           /\ settled[i].error.statusText = Str(resp[i].statusText)
           /\ settled[i].error.detail = Get(resp[i].body.value, "message")
      /\ ~resp[i].body.json =>
           /\ settled[i].kind = "throw"
           /\ settled[i].error.class = "MakeApiError"
           /\ settled[i].error.statusCode = Num(resp[i].status)
           /\ settled[i].error.statusText = Str(resp[i].statusText)
           /\ settled[i].error.detail = Undefined

\* a 404 whose body carries a message and a detail: the message is the detail
C7_Witness ==
  \E i \in Inv :
    /\ resp[i] = HttpResponse(404, "Not Found",
                   JsonBody(Obj(<<<<"message", Str("Scenario not found")>>,
                                  <<"detail", Str("Access denied")>>>>)))
    /\ settled[i].kind = "throw"
    /\ settled[i].error.detail = Str("Scenario not found")
    /\ settled[i].error.message
         = "Make API Error 404: Not Found - Scenario not found"

\* a field the tool's schema declares required is absent from the arguments
MissingRequired(i) ==
  /\ Invoked(i)
  /\ InCatalog(i)
  /\ \E f \in ToolOf(call[i].d, call[i].name).required :
       Get(call[i].args, f).t = "undefined"

\* C8: an invocation that lacks a field its tool's schema declares required
\* fails without issuing an HTTP request: the absent value is never forwarded
\* into a client method.
C8_MissingRequiredRejected ==
  \A i \in Inv :
    MissingRequired(i) =>
      /\ sent[i] = <<>>
      /\ \/ pc[i] = "faulted"
         \/ ReturnedEnvelope(i) /\ result[i].envelope.isError = Bool(TRUE)

C10_UnknownToolIssuesNoRequest ==
  \A i \in Inv :
    (Invoked(i) /\ ~InCatalog(i)) => (sent[i] = <<>> /\ pc[i] # "awaiting")

\* an unknown name was answered while another invocation's request was in flight
C10_Witness ==
  \E i, j \in Inv :
    /\ i # j
    /\ Invoked(i) /\ ~InCatalog(i) /\ call[i].name = "no_such_tool"
    /\ pc[i] = "returned" /\ sent[i] = <<>>
    /\ pc[j] = "awaiting" /\ Len(sent[j]) = 1
(***************************************************************************)
(* C11: the standalone listing holds each of the 21 catalog tool names     *)
(* exactly once; in every listing the required fields of a tool's schema   *)
(* are exactly the fields the tool's handler requires (with the field      *)
(* absent it issues no request), and each of them reaches the request; a   *)
(* listing is the module's catalog whatever invocations ran or are in      *)
(* flight.                                                                 *)
(***************************************************************************)
CatalogNames ==
  {"list_scenarios", "get_scenario", "create_scenario", "update_scenario",
   "delete_scenario", "activate_scenario", "deactivate_scenario",
   "run_scenario", "clone_scenario", "get_scenario_blueprint",
   "get_scenario_logs", "list_connections", "list_hooks", "list_data_stores",
   "get_data_store", "create_data_store", "list_data_store_records",
   "create_data_store_record", "list_teams", "list_organizations",
   "get_current_user"}

Without(args, f) ==
  LET keep(p) == p[1] # f IN Obj(SelectSeq(args.kv, keep))

\* some argument bag of the tool yields another step once field f is taken out
Reaches(d, tool, f) ==
  LET c == MakeClient([apiToken |-> "tok", zone |-> "eu1"])
  IN  \E a \in ArgBags(tool) :
        /\ Has(a, f)
        /\ Switch(d, c, tool.name, a) # Switch(d, c, tool.name, Without(a, f))

\* the handler of the tool requires field f: given a bag without f, whatever
\* else the bag holds, it does not go on to call the remote
Requires(d, tool, f) ==
  LET c == MakeClient([apiToken |-> "tok", zone |-> "eu1"])
  IN  \A a \in ArgBags(tool) :
        ~Has(a, f) => Switch(d, c, tool.name, a).kind # "await"

\* the fields the handler of the tool requires, among those the schema declares
HandlerRequired(d, tool) ==
  {tool.properties[k][1] :
     k \in {m \in 1..Len(tool.properties) :
              Requires(d, tool, tool.properties[m][1])}}

ListedOnce(ts, name) == Cardinality({j \in 1..Len(ts) : ts[j].name = name}) = 1

C11_ListingMatchesHandlers ==
  \A d \in Dispatchers :
    listing[d].kind = "return" =>
      LET ts == listing[d].tools
      IN  /\ d = "standalone" =>
               /\ Len(ts) = 21
               /\ \A n \in CatalogNames : ListedOnce(ts, n)
          /\ \A j \in 1..Len(ts) :
               /\ ListedOnce(ts, ts[j].name)
               /\ ts[j].required = HandlerRequired(d, ts[j])
               /\ \A f \in ts[j].required : Reaches(d, ts[j], f)
          /\ ts = Catalog(d)

(***************************************************************************)
(* C12: every request issued for create_scenario or update_scenario        *)
(* carries confirmed=true in its query string, for every argument bag, and *)
(* both tools do issue their request; no request of another tool carries a *)
(* confirmed parameter.                                                    *)
(***************************************************************************)
ConfirmedTools == {"create_scenario", "update_scenario"}

C12_ConfirmedFlagOnlyOnScenarioWrites ==
  \A i \in Inv :
    /\ \A k \in 1..Len(sent[i]) :
         /\ call[i].name \in ConfirmedTools =>
              HasParam(sent[i][k].url, "confirmed", "true")
         /\ call[i].name \notin ConfirmedTools =>
              ~HasKey(sent[i][k].url, "confirmed")
    /\ (Invoked(i) /\ InCatalog(i) /\ call[i].name \in ConfirmedTools) =>
         Len(sent[i]) = 1

\* update_scenario issued its request with the flag
C12_Witness ==
  \E i \in Inv :
    /\ call[i].d = "standalone"
    /\ call[i].name = "update_scenario"
    /\ call[i].args = Obj(<< <<"scenarioId", Num(42)>>, <<"name", Str("x")>> >>)
    /\ sent[i][1].method = "PATCH"
    /\ sent[i][1].url = "https://eu1.make.com/api/v2/scenarios/42?confirmed=true"

(***************************************************************************)
(* C13: when the environment holds no API token, the standalone process    *)
(* never runs: it builds no client, handles no invocation and issues no    *)
(* request, and its startup step is its exit.  Each hosted handler starts  *)
(* all the same, and every request it issues carries the Authorization     *)
(* header of an empty token.                                               *)
(***************************************************************************)
\* the token is not set, or set to the empty text
TokenAbsent == ~Truthy(env.MAKE_API_TOKEN)

C13_AbsentTokenStopsStandaloneOnly ==
  TokenAbsent =>
    /\ proc["standalone"] \in {"loading", "exited"}
    /\ client["standalone"] = NoClient
    /\ listing["standalone"] = NoListing
    /\ \A i \in Inv : call[i].d # "standalone"
    /\ proc["hosted"] = "loading" => ENABLED HostedStartup
    /\ proc["mcpHandler"] = "loading" => ENABLED McpHandlerStartup
    /\ \A d \in {"hosted", "mcpHandler"} :
         /\ proc[d] \in {"loading", "running"}
         /\ proc[d] = "running" =>
              client[d].headers[1] = <<"Authorization", "Token ">>
    /\ \A i \in Inv : \A k \in 1..Len(sent[i]) :
         /\ call[i].d \in {"hosted", "mcpHandler"}
         /\ sent[i][k].headers[1] = <<"Authorization", "Token ">>

\* without a token the standalone process has exited and the hosted handler
\* has issued a request
C13_Witness ==
  /\ TokenAbsent
  /\ proc["standalone"] = "exited"
  /\ proc["hosted"] = "running"
  /\ \E i \in Inv :
       /\ call[i] = [d |-> "hosted", name |-> "run_scenario",
                     args |-> Obj(<< <<"scenarioId", Num(42)>> >>)]
       /\ Len(sent[i]) = 1
       /\ sent[i][1].url = "https://eu1.make.com/api/v2/scenarios/42/run"
       /\ sent[i][1].headers[1] = <<"Authorization", "Token ">>

(***************************************************************************)
(* C14: under every interleaving, two invocations of one dispatcher with   *)
(* the same name and argument bag issue the same request whatever else is  *)
(* in flight, two whose requests got the same response end with the same   *)
(* result, and a running dispatcher's client keeps the base URL and the    *)
(* headers its constructor built from the environment.                     *)
(***************************************************************************)
ZoneOf(e) == IF e.MAKE_ZONE = Undefined THEN "eu1" ELSE e.MAKE_ZONE.s

TokenOf(e) == IF e.MAKE_API_TOKEN = Undefined THEN "" ELSE e.MAKE_API_TOKEN.s

C14_InvocationsIndependent ==
  /\ \A i, j \in Inv :
       /\ (Invoked(i) /\ Invoked(j) /\ call[i] = call[j]) => sent[i] = sent[j]
       /\ (Finished(i) /\ Finished(j) /\ call[i].d = call[j].d
             /\ sent[i] # <<>> /\ sent[j] # <<>> /\ resp[i] = resp[j]) =>
            (result[i] = result[j] /\ pc[i] = pc[j])
  /\ \A i \in Inv :
       /\ pc[i] = "awaiting" => result[i] = NoResult
       /\ bodyRead[i] \notin {NoOutcome, Pending} =>
            (resp[i].kind = "http" /\ bodyRead[i] = ResponseJson(resp[i], runtime))
       /\ Settled(i) =>
            (resp[i] # NoResp /\ settled[i] = ResponseOutcome(resp[i], runtime))
       /\ (Finished(i) /\ sent[i] # <<>>) =>
            (Settled(i) /\ result[i] = Settle(call[i].d, settled[i]))
  /\ \A d \in Dispatchers :
       IF proc[d] = "running"
       THEN /\ client[d].baseUrl = "https://" \o ZoneOf(env) \o ".make.com/api/v2"
            /\ client[d].headers = << <<"Authorization", "Token " \o TokenOf(env)>>,
                                      <<"Content-Type", "application/json">> >>
       ELSE client[d] = NoClient

\* the same call was made twice on the standalone dispatcher; the two got
\* different responses and ended with different results
C14_Witness ==
  \E i, j \in Inv :
    /\ i # j
    /\ call[i] = call[j]
    /\ call[i].d = "standalone"
    /\ call[i].name = "get_scenario"
    /\ sent[i] = sent[j] /\ Len(sent[i]) = 1
    /\ Finished(i) /\ Finished(j)
    /\ resp[i] # resp[j]
    /\ result[i] # result[j]

(***************************************************************************)
(* C15: for every catalog tool, each field its input schema declares and   *)
(* the argument bag provides is forwarded into the request: the request    *)
(* issued is not the one the same bag without that field would issue.      *)
(***************************************************************************)
DeclaredFields(tool) == {tool.properties[j][1] : j \in 1..Len(tool.properties)}

\* the request of invocation i shows that its bag provides field f
Forwarded(i, f) ==
  /\ Len(sent[i]) = 1
  /\ LET without == Switch(call[i].d, client[call[i].d], call[i].name,
                           Without(call[i].args, f))
     IN  without.kind = "await" /\ without.req # sent[i][1]

C15_DeclaredFieldsForwarded ==
  \A i \in Inv :
    (Invoked(i) /\ InCatalog(i)) =>
      \A f \in DeclaredFields(ToolOf(call[i].d, call[i].name)) :
        Has(call[i].args, f) => Forwarded(i, f)

(***************************************************************************)
(* C16: an optional field of a tool's schema that the argument bag does    *)
(* not hold is not in the request: neither the query string nor the JSON   *)
(* body holds a key for it, so no default stands in for it.                *)
(***************************************************************************)
OptionalFields(tool) == DeclaredFields(tool) \ tool.required

\* the keys under which the client sends a field
KeysOf(f) ==
  {f} \cup (IF f \in {"limit", "offset"} THEN {"pg[" \o f \o "]"} ELSE {})
      \cup (IF f = "maxSize" THEN {"maxSizeMB"} ELSE {})

InQuery(req, f) == \E k \in KeysOf(f) : HasKey(req.url, k)

InBody(req, f) ==
  /\ req.body # Undefined
  /\ \E k \in KeysOf(f) : Contains(req.body.s, QuoteJSONString(k) \o ":")

C16_AbsentOptionalNotSent ==
  \A i \in Inv :
    (Invoked(i) /\ InCatalog(i)) =>
      /\ Len(sent[i]) = 1
      /\ \A f \in OptionalFields(ToolOf(call[i].d, call[i].name)) :
           ~Has(call[i].args, f) =>
             (~InQuery(sent[i][1], f) /\ ~InBody(sent[i][1], f))

\* update_scenario with only a name sent a body holding only the name
C16_Witness ==
  \E i \in Inv :
    /\ call[i] = [d |-> "standalone", name |-> "update_scenario",
                  args |-> Obj(<< <<"scenarioId", Num(42)>>, <<"name", Str("x")>> >>)]
    /\ Len(sent[i]) = 1
    /\ sent[i][1].url = "https://eu1.make.com/api/v2/scenarios/42?confirmed=true"
    /\ sent[i][1].body = Str("{\"name\":\"x\"}")

(***************************************************************************)
(* C17: for every list method of the client and every pagination object,   *)
(* each of offset, limit, sortBy and sortDir that the caller provides is   *)
(* in the URL under pg[offset], pg[limit], pg[sortBy], pg[sortDir] with    *)
(* the value provided, and each one not provided has no such key.          *)
(***************************************************************************)
PaginationFields == {"offset", "limit", "sortBy", "sortDir"}

C17_PaginationEncoded ==
  \A i \in Inv :
    (Invoked(i) /\ call[i].name \in ListMethods /\ call[i].args \in Paginations) =>
      /\ Len(sent[i]) = 1
      /\ \A f \in PaginationFields :
           IF Has(call[i].args, f)
           THEN HasParam(sent[i][1].url, "pg[" \o f \o "]",
                         JSString(Get(call[i].args, f)))
           ELSE ~HasKey(sent[i][1].url, "pg[" \o f \o "]")

(***************************************************************************)
(* C18: against the stub remote, create_data_store_record with record r on *)
(* store s posts exactly r to the records resource of s, and               *)
(* list_data_store_records on s reads that resource: a listing answered    *)
(* after the creation returned is answered with r among its records, and   *)
(* returns a success result that includes every record of its answer.      *)
(***************************************************************************)
RecordsResource(c, s) == c.baseUrl \o "/data-stores/" \o JSString(s) \o "/data"

Creates(i) ==
  /\ Invoked(i)
  /\ call[i].name = "create_data_store_record"
  /\ Has(call[i].args, "data")

Lists(j) == Invoked(j) /\ call[j].name = "list_data_store_records"

StoreOf(i) == Get(call[i].args, "dataStoreId")

\* the result of invocation j is a success whose text holds record r as an
\* element of the listed array
Includes(res, r) ==
  /\ res.kind = "return"
  /\ res.envelope.isError = Undefined
  /\ Contains(res.envelope.content[1].text,
              "\n    " \o Serialize(r, "  ", "    "))

\* the records in the answer r to a listing
Listed(r) ==
  IF r.kind = "http" /\ r.body.json /\ Has(r.body.value, "records")
  THEN Get(r.body.value, "records").items
  ELSE <<>>

C18_CreateThenListRoundTrip ==
  [][ /\ \A i \in Inv :
           Creates(i)' =>
             /\ Len(sent'[i]) = 1
             /\ sent'[i][1].method = "POST"
             /\ sent'[i][1].url = RecordsResource(client'[call'[i].d], StoreOf(i)')
             /\ sent'[i][1].body = Str(JSONStringify(Get(call'[i].args, "data")))
      /\ \A j \in Inv :
           Lists(j)' =>
             /\ Len(sent'[j]) = 1
             /\ sent'[j][1].method = "GET"
             /\ ResourceOf(sent'[j][1].url)
                  = RecordsResource(client'[call'[j].d], StoreOf(j)')
      /\ \A i, j \in Inv :
           (/\ Creates(i) /\ pc[i] = "returned"
            /\ Lists(j) /\ resp[j] = NoResp /\ resp'[j] # NoResp
            /\ StoreOf(i) = StoreOf(j)) =>
             \E k \in 1..Len(Listed(resp'[j])) :
               Listed(resp'[j])[k] = Get(call[i].args, "data")
      /\ \A j \in Inv :
           (Lists(j) /\ pc[j] = "awaiting" /\ pc'[j] # "awaiting") =>
             \A k \in 1..Len(Listed(resp[j])) :
               Includes(result'[j], Listed(resp[j])[k])
    ]_vars

\* record {"k":"v"} was created in store 42 and a listing of store 42 returned it
C18_Witness ==
  \E i, j \in Inv :
    /\ call[i] = [d |-> "standalone", name |-> "create_data_store_record",
                  args |-> Obj(<< <<"dataStoreId", Num(42)>>,
                                  <<"data", Obj(<< <<"k", Str("v")>> >>)>> >>)]
    /\ pc[i] = "returned"
    /\ sent[i][1].body = Str("{\"k\":\"v\"}")
    /\ call[j].name = "list_data_store_records"
    /\ StoreOf(j) = Num(42)
    /\ pc[j] = "returned"
    /\ result[j].envelope.content[1].text
         = "{\n  \"records\": [\n    {\n      \"k\": \"v\"\n    }\n  ]\n}"

(***************************************************************************)
(* C19: the request operation fails exactly when the HTTP status is not    *)
(* 2xx: a response with a 2xx status, whatever its body, gives the caller  *)
(* a value, and the invocation returns an envelope without error flag.     *)
(***************************************************************************)
C19_FailsIffNon2xx ==
  \A i \in Inv :
    (resp[i].kind = "http" /\ Settled(i)) =>
      /\ settled[i].kind = "throw" <=> ~ResponseOk(resp[i])
      /\ ResponseOk(resp[i]) => settled[i].kind = "value"
      /\ (ResponseOk(resp[i]) /\ Finished(i)) =>
           /\ ReturnedEnvelope(i)
           /\ result[i].envelope.isError = Undefined

(***************************************************************************)
(* C20: an invocation that issued a request returns a result only after    *)
(* the remote has responded to it: a returned envelope has an HTTP         *)
(* response behind it; while no response has come request has no outcome,  *)
(* the invocation has no result, and no step of the client or the handler  *)
(* ends the wait.  A waiting invocation blocks no other: any other one     *)
(* whose fetch is pending can be answered and any idle one can be invoked  *)
(* on a running dispatcher.                                                *)
(***************************************************************************)
C20_ResultOnlyAfterResponse ==
  \A i \in Inv :
    /\ (ReturnedEnvelope(i) /\ sent[i] # <<>>) =>
         (resp[i].kind = "http" /\ Settled(i))
    /\ Settled(i) => resp[i] # NoResp
    /\ pc[i] = "awaiting" => (Len(sent[i]) = 1 /\ result[i] = NoResult)
    /\ (pc[i] = "awaiting" /\ resp[i] = NoResp) =>
         /\ ~ENABLED RequestResume(i)
         /\ ~ENABLED JsonSettle(i)
         /\ ~ENABLED RequestReturn(i)
         /\ ~ENABLED HandlerResume(i)
         /\ \A j \in Inv \ {i} :
              /\ (pc[j] = "awaiting" /\ resp[j] = NoResp) =>
                   ENABLED Respond(j, HttpResponse(200, "OK", JsonBody(Obj(<<>>))))
              /\ pc[j] = "idle" =>
                   \A d \in Dispatchers :
                     proc[d] = "running" =>
                       ENABLED Invoke(j, d, "run_scenario",
                                      Obj(<< <<"scenarioId", Num(42)>> >>))

(***************************************************************************)
(* C21: the request of a catalog tool has the HTTP method and the path     *)
(* template of the tool's name, whatever the argument bag, and the         *)
(* identifier in its path is the one the bag supplies; the request has the *)
(* method and path template of no other tool.                              *)
(***************************************************************************)
Route(method, before, id, after) ==
  [method |-> method, before |-> before, id |-> id, after |-> after]

\* method and path template of each tool: before{id}after, or before alone
RouteOf(name) ==
  CASE name = "list_scenarios" -> Route("GET", "/scenarios", "", "")
    [] name = "get_scenario" -> Route("GET", "/scenarios/", "scenarioId", "")
    [] name = "create_scenario" -> Route("POST", "/scenarios", "", "")
    [] name = "update_scenario" -> Route("PATCH", "/scenarios/", "scenarioId", "")
    [] name = "delete_scenario" -> Route("DELETE", "/scenarios/", "scenarioId", "")
    [] name = "activate_scenario" ->
         Route("POST", "/scenarios/", "scenarioId", "/start")
    [] name = "deactivate_scenario" ->
         Route("POST", "/scenarios/", "scenarioId", "/stop")
    [] name = "run_scenario" -> Route("POST", "/scenarios/", "scenarioId", "/run")
    [] name = "clone_scenario" ->
         Route("POST", "/scenarios/", "scenarioId", "/clone")
    [] name = "get_scenario_blueprint" ->
         Route("GET", "/scenarios/", "scenarioId", "/blueprint")
    [] name = "get_scenario_logs" ->
         Route("GET", "/scenarios/", "scenarioId", "/logs")
    [] name = "list_connections" -> Route("GET", "/connections", "", "")
    [] name = "list_hooks" -> Route("GET", "/hooks", "", "")
    [] name = "list_data_stores" -> Route("GET", "/data-stores", "", "")
    [] name = "get_data_store" -> Route("GET", "/data-stores/", "dataStoreId", "")
    [] name = "create_data_store" -> Route("POST", "/data-stores", "", "")
    [] name = "list_data_store_records" ->
         Route("GET", "/data-stores/", "dataStoreId", "/data")
    [] name = "create_data_store_record" ->
         Route("POST", "/data-stores/", "dataStoreId", "/data")
    [] name = "list_teams" -> Route("GET", "/teams", "", "")
    [] name = "list_organizations" -> Route("GET", "/organizations", "", "")
    [] name = "get_current_user" -> Route("GET", "/users/me", "", "")

\* the path of a request: its URL without the base URL and the query string
PathOf(c, req) ==
  SubSeq(ResourceOf(req.url), Len(c.baseUrl) + 1, Len(ResourceOf(req.url)))

\* path is template before{id}after with an identifier, a non-empty text
\* without "/", in place of {id}
Instantiates(path, route) ==
  IF route.id = "" THEN path = route.before
  ELSE /\ Len(path) > Len(route.before) + Len(route.after)
       /\ SubSeq(path, 1, Len(route.before)) = route.before
       /\ SubSeq(path, Len(path) - Len(route.after) + 1, Len(path)) = route.after
       /\ ~Contains(SubSeq(path, Len(route.before) + 1,
                           Len(path) - Len(route.after)), "/")

C21_RouteFixedByToolName ==
  \A i \in Inv :
    (Invoked(i) /\ InCatalog(i)) =>
      LET route == RouteOf(call[i].name)
          c == client[call[i].d]
      IN  /\ Len(sent[i]) = 1
          /\ sent[i][1].method = route.method
          /\ SubSeq(sent[i][1].url, 1, Len(c.baseUrl)) = c.baseUrl
          /\ Instantiates(PathOf(c, sent[i][1]), route)
          /\ (route.id # "" /\ Has(call[i].args, route.id)) =>
               PathOf(c, sent[i][1])
                 = route.before \o JSString(Get(call[i].args, route.id))
                     \o route.after
          /\ \A other \in CatalogNames \ {call[i].name} :
               \/ RouteOf(other).method # sent[i][1].method
               \/ ~Instantiates(PathOf(c, sent[i][1]), RouteOf(other))

\* activate_scenario, deactivate_scenario and delete_scenario of scenario 42
\* each issued its request: here the deactivation
C21_Witness ==
  \E i \in Inv :
    /\ call[i] = [d |-> "standalone", name |-> "deactivate_scenario",
                  args |-> Obj(<< <<"scenarioId", Num(42)>> >>)]
    /\ Len(sent[i]) = 1
    /\ sent[i][1].method = "POST"
    /\ sent[i][1].url = "https://eu1.make.com/api/v2/scenarios/42/stop"

(***************************************************************************)
(* C22: for every response with a status that is not 2xx, whatever its     *)
(* body, the request operation fails with the structured API error of that *)
(* status code and status text, and with nothing else; when the body is a  *)
(* JSON object whose message and detail are both absent or empty, the      *)
(* error's detail is the JSON text of the whole body.                      *)
(***************************************************************************)
\* the body is a JSON object with neither a non-empty message nor a non-empty
\* detail
BareObject(body) ==
  /\ body.json
  /\ body.value.t = "obj"
  /\ ~Truthy(Get(body.value, "message"))
  /\ ~Truthy(Get(body.value, "detail"))

C22_Non2xxIsAlwaysApiError ==
  \A i \in Inv :
    (RemoteFailure(i) /\ Settled(i)) =>
      /\ settled[i] = Thrown(MakeApiError(resp[i].status, resp[i].statusText,
                                          settled[i].error.detail))
      /\ settled[i].error.name = "MakeApiError"
      /\ Contains(settled[i].error.message,
                  ToString(resp[i].status) \o ": " \o resp[i].statusText)
      /\ BareObject(resp[i].body) =>
           settled[i].error.detail = Str(JSONStringify(resp[i].body.value))

(***************************************************************************)
(* C23: for a tool name both dispatchers handle (list_scenarios,           *)
(* run_scenario) and one argument bag, the standalone and the hosted       *)
(* dispatcher issue the same request (method, URL, body), and when the two *)
(* requests get the same response or failure the two invocations end with  *)
(* the same result envelope.                                               *)
(***************************************************************************)
SharedTools == ToolNames("standalone") \cap ToolNames("hosted")

\* invocations i and j are the same call, i on the standalone dispatcher and
\* j on the hosted one
SameCallOnBoth(i, j) ==
  /\ Invoked(i) /\ Invoked(j)
  /\ call[i].d = "standalone" /\ call[j].d = "hosted"
  /\ call[i].name = call[j].name
  /\ call[i].name \in SharedTools
  /\ call[i].args = call[j].args

C23_DispatchersAgree ==
  \A i, j \in Inv :
    SameCallOnBoth(i, j) =>
      /\ Len(sent[i]) = 1 /\ Len(sent[j]) = 1
      /\ sent[i][1].method = sent[j][1].method
      /\ sent[i][1].url = sent[j][1].url
      /\ sent[i][1].body = sent[j][1].body
      /\ (Finished(i) /\ Finished(j) /\ resp[i] = resp[j]) =>
           (pc[i] = pc[j] /\ result[i] = result[j])

====
